---- MODULE Spec2Model ----
(***************************************************************************)
(* Model of the SSB file lifecycle (SsbFileManager), of the editor's       *)
(* text-mark / breakpoint handling (SSBEditorController) and of the        *)
(* collaborators they call (breakpoint manager, GTK text buffer, the GTK   *)
(* main loop).                                                             *)
(*                                                                         *)
(* A text buffer is a sequence of characters, "c" for any character that   *)
(* is not a line break and "n" for a line break.  A position is a          *)
(* character offset 0..Len(text); Len(text) is the end iterator.           *)
(* A text mark named routine_<r>_opcode_<o> is the key <<r, o>> in the     *)
(* function "marks", TMP_routine_<r>_opcode_<o> in "tmp" and the source    *)
(* mark for:routine_<r>_opcode_<o> of category breakpoint in "bp"; the     *)
(* value is the mark's offset, or NoPos when the buffer has no such mark.  *)
(***************************************************************************)
EXTENDS Integers, Sequences, FiniteSets, TLC

\* Bounds of the model.
MaxLen == 2
MaxQueue == 2

Filenames == {"f"}
Routines == {0}
Opcodes == {0}
Keys == Routines \X Opcodes
Views == {"ssbs", "exps"}

NoPos == -1
None == "None"

Chars == {"c", "n"}
Texts == UNION {[1..n -> Chars] : n \in 0..MaxLen}

----------------------------------------------------------------------------
\* Gtk.TextBuffer / Gtk.TextIter as the controller uses them.

\* TextIter.get_line() of the iterator at offset p.
LineOf(text, p) == Cardinality({i \in 1..p : text[i] = "n"})

\* TextBuffer.get_line_count().
LineCount(text) == 1 + Cardinality({i \in 1..Len(text) : text[i] = "n"})

\* TextBuffer.get_iter_at_line(line): the offset of the line's first position.
IterAtLine(text, line) ==
    CHOOSE p \in 0..Len(text) :
        /\ LineOf(text, p) = line
        /\ \A q \in 0..Len(text) : LineOf(text, q) = line => p <= q

\* TextBuffer.get_iter_at_line_offset(line, column).
IterAtLineOffset(text, line, column) == IterAtLine(text, line) + column

\* A source map: entries <<routine_id, opcode_offset, line, column>>, at most
\* one per (routine_id, opcode_offset), each at the first character of its
\* instruction in the text (no line break), the instructions of a routine in
\* the order of their offsets.
EntriesAt(text) ==
    {<<k[1], k[2], LineOf(text, p), p - IterAtLine(text, LineOf(text, p))>> :
        k \in Keys, p \in {q \in 0..(Len(text) - 1) : text[q + 1] = "c"}}

SourceMaps(text) ==
    {sm \in SUBSET EntriesAt(text) :
        /\ \A e1, e2 \in sm : (e1[1] = e2[1] /\ e1[2] = e2[2]) => e1 = e2
        /\ \A e1, e2 \in sm : (e1[1] = e2[1] /\ e1[2] < e2[2]) =>
                (e1[3] < e2[3] \/ (e1[3] = e2[3] /\ e1[4] < e2[4]))}

NoMarks == [k \in Keys |-> NoPos]

EmptyBuffer == [text |-> <<>>, marks |-> NoMarks, tmp |-> NoMarks,
                bp |-> NoMarks, modified |-> FALSE]

\* TextBuffer.create_mark(name, where): GTK refuses a second mark of a name
\* that exists (it returns no mark and leaves the first where it is).
CreateMark(ms, k, p) == IF ms[k] # NoPos THEN ms ELSE [ms EXCEPT ![k] = p]

\* for routine_id, opcode_offset, line, column in model.source_map:
\*     buffer.create_mark(prefix + name, buffer.get_iter_at_line_offset(line, column))
CreateMarksFromSourceMap(ms, text, sm) ==
    [k \in Keys |->
        IF \E e \in sm : <<e[1], e[2]>> = k
        THEN LET e == CHOOSE e \in sm : <<e[1], e[2]>> = k
             IN  CreateMark(ms, k, IterAtLineOffset(text, e[3], e[4]))[k]
        ELSE ms[k]]

\* The marks at one offset whose name starts with the prefix of "ms".
MarksAtPos(ms, p) == {k \in Keys : ms[k] = p}

\* GtkSource.Buffer.remove_source_marks(start, end): both ends included.
RemoveSourceMarks(bp, from, to) ==
    [k \in Keys |-> IF bp[k] # NoPos /\ from <= bp[k] /\ bp[k] <= to
                    THEN NoPos ELSE bp[k]]

\* GtkSource.Buffer.get_source_marks_at_line(line, 'breakpoint').
SourceMarksAtLine(buf, line) ==
    {k \in Keys : buf.bp[k] # NoPos /\ LineOf(buf.text, buf.bp[k]) = line}

\* Insertion of one character at offset p.  Text marks made by create_mark
\* have right gravity (they end up behind text inserted at their offset);
\* source marks have left gravity (they stay).
ShiftRightGravity(ms, p) ==
    [k \in Keys |-> IF ms[k] # NoPos /\ ms[k] >= p THEN ms[k] + 1 ELSE ms[k]]

ShiftLeftGravity(ms, p) ==
    [k \in Keys |-> IF ms[k] # NoPos /\ ms[k] > p THEN ms[k] + 1 ELSE ms[k]]

InsertAt(text, p, ch) ==
    [i \in 1..(Len(text) + 1) |->
        IF i <= p THEN text[i] ELSE IF i = p + 1 THEN ch ELSE text[i - 1]]

BufferInsert(buf, p, ch) ==
    [buf EXCEPT !.text = InsertAt(buf.text, p, ch),
                !.marks = ShiftRightGravity(buf.marks, p),
                !.tmp = ShiftRightGravity(buf.tmp, p),
                !.bp = ShiftLeftGravity(buf.bp, p),
                !.modified = TRUE]

\* Deletion of the character at offset p: every mark behind it moves one back.
ShiftDelete(ms, p) ==
    [k \in Keys |-> IF ms[k] # NoPos /\ ms[k] > p THEN ms[k] - 1 ELSE ms[k]]

DeleteAt(text, p) ==
    [i \in 1..(Len(text) - 1) |-> IF i <= p THEN text[i] ELSE text[i + 1]]

BufferDelete(buf, p) ==
    [buf EXCEPT !.text = DeleteAt(buf.text, p),
                !.marks = ShiftDelete(buf.marks, p),
                !.tmp = ShiftDelete(buf.tmp, p),
                !.bp = ShiftDelete(buf.bp, p),
                !.modified = TRUE]

----------------------------------------------------------------------------
\* SSBEditorController: one controller per file opened in the editor, a record
\* [ssbs, exps: buffers of the two views, waiting_for_reload: BOOLEAN].

\* self._explorerscript_active: set in __init__ and never assigned again.
explorerscript_active == FALSE

\* TextIter.forward_char() at offset p: it moves to p + 1 and returns False
\* when the iterator then is the end iterator (or was it already).
ForwardChar(text, p) == p + 1 < Len(text)

\* _get_opcode_in_line: the possible results, {} standing for None.  Several
\* marks at one offset come in no documented order, so each may be
\* marks_at_pos[0].
RECURSIVE GetOpcodeScan(_, _, _, _)
GetOpcodeScan(ms, text, line, p) ==
    IF LineOf(text, p) # line THEN {}
    ELSE IF MarksAtPos(ms, p) # {} THEN MarksAtPos(ms, p)
    ELSE IF ~ForwardChar(text, p) THEN {}
    ELSE GetOpcodeScan(ms, text, line, p + 1)

_get_opcode_in_line(buf, line, use_temp_markers) ==
    GetOpcodeScan(IF use_temp_markers THEN buf.tmp ELSE buf.marks,
                  buf.text, line, IterAtLine(buf.text, line))

\* on_breakpoint_added, for one view's buffer.
BreakpointAddedIn(buf, k) ==
    IF buf.marks[k] = NoPos THEN buf
    ELSE IF buf.bp[k] # NoPos THEN buf
    ELSE [buf EXCEPT !.bp[k] = IterAtLine(buf.text, LineOf(buf.text, buf.marks[k]))]

on_breakpoint_added(ed, k) ==
    [ed EXCEPT !.ssbs = BreakpointAddedIn(ed.ssbs, k),
               !.exps = BreakpointAddedIn(ed.exps, k)]

\* on_breakpoint_removed, for one view's buffer: remove_source_marks at the
\* line mark's position takes every source mark at that position with it.
BreakpointRemovedIn(buf, k) ==
    IF buf.bp[k] = NoPos THEN buf
    ELSE [buf EXCEPT !.bp = RemoveSourceMarks(buf.bp, buf.bp[k], buf.bp[k])]

on_breakpoint_removed(ed, k) ==
    [ed EXCEPT !.ssbs = BreakpointRemovedIn(ed.ssbs, k),
               !.exps = BreakpointRemovedIn(ed.exps, k)]

\* on_breakpoint_added / on_breakpoint_removed for a list of keys (distinct
\* keys name distinct marks, so additions are independent of their order).
RECURSIVE BreakpointsAdded(_, _)
BreakpointsAdded(ed, keys) ==
    IF keys = {} THEN ed
    ELSE LET k == CHOOSE k \in keys : TRUE
         IN  BreakpointsAdded(on_breakpoint_added(ed, k), keys \ {k})

RECURSIVE BreakpointsRemoved(_, _)
BreakpointsRemoved(ed, keys) ==
    IF keys = {} THEN ed
    ELSE LET k == CHOOSE k \in keys : TRUE
         IN  BreakpointsRemoved(on_breakpoint_removed(ed, k), keys \ {k})

\* on_ssb_reload, the loop "while textiter.forward_char()" of one buffer; p is
\* the iterator's offset before the call of forward_char.
RECURSIVE MigrateScan(_, _)
MigrateScan(buf, p) ==
    IF ~ForwardChar(buf.text, p) THEN buf
    ELSE LET q == p + 1
             old_marks_at_pos == MarksAtPos(buf.marks, q)
             new_marks_at_pos == MarksAtPos(buf.tmp, q)
             deleted == [k \in Keys |->
                            IF k \in old_marks_at_pos THEN NoPos ELSE buf.marks[k]]
             moved == [k \in Keys |->
                            IF k \in new_marks_at_pos THEN q ELSE deleted[k]]
             rest == [k \in Keys |->
                            IF k \in new_marks_at_pos THEN NoPos ELSE buf.tmp[k]]
         IN  MigrateScan([buf EXCEPT !.marks = moved, !.tmp = rest], q)

\* on_ssb_reload for one view without the call of remove_source_marks.
ReloadView_keeps_line_marks(ed, view, bps) ==
    LET buf == ed[view]
        migrated == IF ed.waiting_for_reload THEN MigrateScan(buf, 0) ELSE buf
    IN  BreakpointsAdded([ed EXCEPT ![view] = migrated], bps)

\* on_ssb_reload, the body of "for view in (...)" for one view; bps are the
\* keys saved_in_rom_get_for returns.
ReloadView(ed, view, bps) ==
    LET buf == ed[view]
        cleared == [buf EXCEPT !.bp = RemoveSourceMarks(buf.bp, 0, Len(buf.text))]
        migrated == IF ed.waiting_for_reload THEN MigrateScan(cleared, 0) ELSE cleared
    IN  BreakpointsAdded([ed EXCEPT ![view] = migrated], bps)

on_ssb_reload(ed, bps) == ReloadView(ReloadView(ed, "ssbs", bps), "exps", bps)

\* load_views / process_loaded: both buffers get the text of their model and
\* one routine_ mark per source map entry; _load_breakpoints_from_manager
\* then adds the line marks of the stored breakpoints.
LoadedBuffer(text, sm) ==
    [EmptyBuffer EXCEPT !.text = text,
                        !.marks = CreateMarksFromSourceMap(NoMarks, text, sm)]

NewController(ssbs_text, ssbs_sm, exps_text, exps_sm, bps) ==
    BreakpointsAdded([ssbs |-> LoadedBuffer(ssbs_text, ssbs_sm),
                      exps |-> LoadedBuffer(exps_text, exps_sm),
                      waiting_for_reload |-> FALSE], bps)

\* save: "Build temporary text marks for the new source map" for one view.
WithTmpMarks(buf, sm) ==
    [buf EXCEPT !.tmp = CreateMarksFromSourceMap(buf.tmp, buf.text, sm)]

\* save: the lists breakpoints_to_resync the loop over the lines of
\* modified_buffer can build, as sets of keys; the opcode of a line is looked
\* up in "buffer".
BreakpointsToResync(modified_buffer, buffer) ==
    LET lines == {l \in 0..(LineCount(modified_buffer.text) - 1) :
                    /\ SourceMarksAtLine(modified_buffer, l) # {}
                    /\ _get_opcode_in_line(buffer, l, FALSE) # {}}
    IN  {{g[l] : l \in lines} :
            g \in {h \in [lines -> Keys] :
                     \A l \in lines : h[l] \in _get_opcode_in_line(buffer, l, FALSE)}}

----------------------------------------------------------------------------
\* SsbFileManager: _open_files maps a filename to its SsbLoadedFile, a record
\* of the four flags.  The source map of a file's model (f.ssbs.source_map) is
\* no field of the record: it is written by a save and by the load of a view
\* and read only by the handler that has just written it, so it is a value
\* the action hands on, and "last" keeps the one of the last save.

\* SsbLoadedFile as SsbFileManager.get constructs it.
NewLoadedFile ==
    [opened_in_editor |-> FALSE, opened_in_ground_engine |-> FALSE,
     ram_state_up_to_date |-> TRUE, not_breakable |-> FALSE]

Flags(f) ==
    [opened_in_editor |-> f.opened_in_editor,
     opened_in_ground_engine |-> f.opened_in_ground_engine,
     ram_state_up_to_date |-> f.ram_state_up_to_date,
     not_breakable |-> f.not_breakable]

\* get that keeps a single file, the one last asked for.
get_keeps_one_file(files, filename) ==
    filename :> (IF filename \in DOMAIN files THEN files[filename]
                 ELSE NewLoadedFile)

\* get that constructs the file at every call.
get_constructs_anew(files, filename) ==
    [g \in DOMAIN files \cup {filename} |->
        IF g = filename THEN NewLoadedFile ELSE files[g]]

get(files, filename) ==
    IF filename \in DOMAIN files THEN files ELSE files @@ (filename :> NewLoadedFile)

\* _handle_after_save that reports a reload as possible whatever the ground
\* engine holds.
handle_after_save_always_ready(files, filename) ==
    [files |-> [files EXCEPT ![filename].ram_state_up_to_date = TRUE],
     ret |-> TRUE]

\* _handle_after_save without its first assignment: a deferred save leaves
\* ram_state_up_to_date as it was.
handle_after_save_keeps_ram_state(files, filename) ==
    IF ~files[filename].opened_in_ground_engine
    THEN [files |-> [files EXCEPT ![filename].ram_state_up_to_date = TRUE],
          ret |-> TRUE]
    ELSE [files |-> files, ret |-> FALSE]

\* _handle_after_save that declares the file breakable again when a reload
\* is possible.
handle_after_save_clears_not_breakable(files, filename) ==
    IF ~files[filename].opened_in_ground_engine
    THEN [files |-> [files EXCEPT ![filename].ram_state_up_to_date = TRUE,
                                  ![filename].not_breakable = FALSE],
          ret |-> TRUE]
    ELSE [files |-> [files EXCEPT ![filename].ram_state_up_to_date = FALSE],
          ret |-> FALSE]

\* Returns [files, ret]: ret is "whether a reload is possible".
_handle_after_save(files, filename) ==
    LET f1 == [files EXCEPT ![filename].ram_state_up_to_date = FALSE]
    IN  IF ~f1[filename].opened_in_ground_engine
        THEN [files |-> [f1 EXCEPT ![filename].ram_state_up_to_date = TRUE],
              ret |-> TRUE]
        ELSE [files |-> f1, ret |-> FALSE]

\* What the compiler and the archive do to one save_from_ssb_script: "ok";
\* "SsbCompilerError", compile_ssbscript raises (a ParseError takes the same
\* path); "OSError", rom.saveToFile raises.
SaveOutcomes == {"ok", "SsbCompilerError", "OSError"}

\* save_from_ssb_script that replaces the model before the compiler has
\* returned.
save_from_ssb_script_replaces_model_first(files, filename, outcome) ==
    LET f0 == IF filename \in DOMAIN files THEN files
              ELSE files @@ (filename :> NewLoadedFile)
    IN  IF outcome = "SsbCompilerError"
        THEN [files |-> f0, ret |-> FALSE, raised |-> outcome,
              written |-> {"ssb_model"}]
        ELSE IF outcome = "OSError"
        THEN [files |-> f0, ret |-> FALSE, raised |-> outcome,
              written |-> {"ssb_model", "source_map", "rom"}]
        ELSE LET r == _handle_after_save(f0, filename)
             IN  [files |-> r.files, ret |-> r.ret, raised |-> None,
                  written |-> {"ssb_model", "source_map", "rom", "rom_file"}]

\* Returns [files, ret, raised, written]: raised is the exception that left
\* the method ("None" when it returned), written the objects its statements
\* assigned before that: f.ssb_model and f.ssbs.source_map (one tuple
\* assignment, after compile_ssbscript returned), the archive in memory
\* (rom.setFileByName) and the archive file (rom.saveToFile).
save_from_ssb_script(files, filename, outcome) ==
    LET f0 == get(files, filename)
    IN  IF outcome = "SsbCompilerError"
        THEN [files |-> f0, ret |-> FALSE, raised |-> outcome, written |-> {}]
        ELSE IF outcome = "OSError"
        THEN [files |-> f0, ret |-> FALSE, raised |-> outcome,
              written |-> {"ssb_model", "source_map", "rom"}]
        ELSE LET r == _handle_after_save(f0, filename)
             IN  [files |-> r.files, ret |-> r.ret, raised |-> None,
                  written |-> {"ssb_model", "source_map", "rom", "rom_file"}]

save_from_explorerscript(files, filename) ==
    LET r == _handle_after_save(files, filename)
    IN  [files |-> r.files, ret |-> r.ret, raised |-> None, written |-> {}]

\* open_in_editor that also takes the RAM state to be up to date.
open_in_editor_resets_ram_state(files, filename) ==
    [(IF filename \in DOMAIN files THEN files
      ELSE files @@ (filename :> NewLoadedFile))
        EXCEPT ![filename].opened_in_editor = TRUE,
               ![filename].ram_state_up_to_date = TRUE]

\* open_in_editor that also declares the file breakable again.
open_in_editor_clears_not_breakable(files, filename) ==
    [(IF filename \in DOMAIN files THEN files
      ELSE files @@ (filename :> NewLoadedFile))
        EXCEPT ![filename].opened_in_editor = TRUE,
               ![filename].not_breakable = FALSE]

open_in_editor(files, filename) ==
    [get(files, filename) EXCEPT ![filename].opened_in_editor = TRUE]

\* open_in_ground_engine without the test of ram_state_up_to_date: every
\* call takes the file to be reloaded in RAM.
open_in_ground_engine_always_reloads(files, filename) ==
    [files |-> [(IF filename \in DOMAIN files THEN files
                 ELSE files @@ (filename :> NewLoadedFile))
                    EXCEPT ![filename].opened_in_ground_engine = TRUE,
                           ![filename].ram_state_up_to_date = TRUE,
                           ![filename].not_breakable = FALSE],
     reloads |-> 1]

\* open_in_ground_engine that does not clear not_breakable.
open_in_ground_engine_keeps_not_breakable(files, filename) ==
    LET f1 == [(IF filename \in DOMAIN files THEN files
                ELSE files @@ (filename :> NewLoadedFile))
                    EXCEPT ![filename].opened_in_ground_engine = TRUE]
    IN  IF ~f1[filename].ram_state_up_to_date
        THEN [files |-> [f1 EXCEPT ![filename].ram_state_up_to_date = TRUE],
              reloads |-> 1]
        ELSE [files |-> f1, reloads |-> 0]

\* Returns [files, reloads]: reloads counts the calls of signal_editor_reload.
open_in_ground_engine(files, filename) ==
    LET f1 == [get(files, filename) EXCEPT ![filename].opened_in_ground_engine = TRUE]
    IN  IF ~f1[filename].ram_state_up_to_date
        THEN [files |-> [f1 EXCEPT ![filename].ram_state_up_to_date = TRUE,
                                   ![filename].not_breakable = FALSE],
              reloads |-> 1]
        ELSE [files |-> f1, reloads |-> 0]

\* close_in_editor that sets not_breakable before it asks.
close_in_editor_marks_before_asking(files, filename, warning) ==
    IF ~files[filename].ram_state_up_to_date
    THEN IF ~warning
         THEN [files |-> [files EXCEPT ![filename].not_breakable = TRUE],
               ret |-> FALSE, warning |-> "False"]
         ELSE [files |-> [files EXCEPT ![filename].not_breakable = TRUE,
                                       ![filename].opened_in_editor = FALSE],
               ret |-> TRUE, warning |-> "True"]
    ELSE [files |-> [files EXCEPT ![filename].opened_in_editor = FALSE],
          ret |-> TRUE, warning |-> None]

\* close_in_editor that asks whatever ram_state_up_to_date is.
close_in_editor_always_asks(files, filename, warning) ==
    IF ~warning
    THEN [files |-> files, ret |-> FALSE, warning |-> "False"]
    ELSE [files |-> [files EXCEPT
                        ![filename].not_breakable =
                            @ \/ ~files[filename].ram_state_up_to_date,
                        ![filename].opened_in_editor = FALSE],
          ret |-> TRUE, warning |-> "True"]

\* Returns [files, ret, warning]: warning is what warning_callback returned,
\* "None" when it was not called; the parameter is what it returns if called.
close_in_editor(files, filename, warning) ==
    IF ~files[filename].ram_state_up_to_date
    THEN IF ~warning
         THEN [files |-> files, ret |-> FALSE, warning |-> "False"]
         ELSE [files |-> [files EXCEPT ![filename].not_breakable = TRUE,
                                       ![filename].opened_in_editor = FALSE],
               ret |-> TRUE, warning |-> "True"]
    ELSE [files |-> [files EXCEPT ![filename].opened_in_editor = FALSE],
          ret |-> TRUE, warning |-> None]

\* close_in_ground_engine that sets ram_state_up_to_date before it tests it.
close_in_ground_engine_sets_flag_first(files, filename) ==
    LET f1 == [(IF filename \in DOMAIN files THEN files
                ELSE files @@ (filename :> NewLoadedFile))
                    EXCEPT ![filename].opened_in_ground_engine = FALSE,
                           ![filename].not_breakable = FALSE,
                           ![filename].ram_state_up_to_date = TRUE]
    IN  [files |-> f1, scheduled |-> 0]

\* close_in_ground_engine without the test of ram_state_up_to_date: every
\* call hands a reload to the GTK main loop.
close_in_ground_engine_always_schedules(files, filename) ==
    LET f1 == [(IF filename \in DOMAIN files THEN files
                ELSE files @@ (filename :> NewLoadedFile))
                    EXCEPT ![filename].opened_in_ground_engine = FALSE,
                           ![filename].not_breakable = FALSE,
                           ![filename].ram_state_up_to_date = TRUE]
    IN  [files |-> f1, scheduled |-> 1]

\* close_in_ground_engine without its last assignment.
close_in_ground_engine_keeps_ram_state(files, filename) ==
    LET f1 == [(IF filename \in DOMAIN files THEN files
                ELSE files @@ (filename :> NewLoadedFile))
                    EXCEPT ![filename].opened_in_ground_engine = FALSE,
                           ![filename].not_breakable = FALSE]
    IN  [files |-> f1,
         scheduled |-> IF ~f1[filename].ram_state_up_to_date THEN 1 ELSE 0]

\* Returns [files, scheduled]: scheduled counts the callbacks handed to
\* threadsafe_now_or_gtk_nonblocking.
close_in_ground_engine(files, filename) ==
    LET f1 == [get(files, filename) EXCEPT
                    ![filename].opened_in_ground_engine = FALSE,
                    ![filename].not_breakable = FALSE]
    IN  [files |-> [f1 EXCEPT ![filename].ram_state_up_to_date = TRUE],
         scheduled |-> IF ~f1[filename].ram_state_up_to_date THEN 1 ELSE 0]

\* mark_invalid without its first assignment.
mark_invalid_keeps_ram_state(files, filename) ==
    [(IF filename \in DOMAIN files THEN files
      ELSE files @@ (filename :> NewLoadedFile))
        EXCEPT ![filename].not_breakable = TRUE]

mark_invalid(files, filename) ==
    [get(files, filename) EXCEPT ![filename].ram_state_up_to_date = FALSE,
                                 ![filename].not_breakable = TRUE]

----------------------------------------------------------------------------
\* Collaborators whose code is outside the modelled files.

\* BreakpointManager: the breakpoints of a file are a set of keys.  add and
\* remove notify the file's editor (on_breakpoint_added / _removed); resync
\* replaces the set and notifies nobody.
BreakpointManagerAdd(bps, filename, k) == [bps EXCEPT ![filename] = @ \cup {k}]

BreakpointManagerRemove(bps, filename, k) == [bps EXCEPT ![filename] = @ \ {k}]

BreakpointManagerResync(bps, filename, keys) == [bps EXCEPT ![filename] = keys]

saved_in_rom_get_for(bps, filename) == bps[filename]

\* SsbLoadedFile.signal_editor_reload: calls the handler the file's editor
\* registered (on_ssb_reload), if one is registered.
signal_editor_reload(eds, bps, filename) ==
    IF filename \notin DOMAIN eds THEN eds
    ELSE [eds EXCEPT ![filename] = on_ssb_reload(@, saved_in_rom_get_for(bps, filename))]

\* What SsbLoadedFile.exps holds once loaded, <<text, source map>>: nothing,
\* "ExplorerScript is not avaiable for this file".
ExpsLoads == {<< <<>>, {} >>}

\* threadsafe_now_or_gtk_nonblocking(cb): the callback is queued for the GTK
\* main loop, which runs the editor's handlers one at a time.
threadsafe_now_or_gtk_nonblocking(queue, filename) == Append(queue, filename)

----------------------------------------------------------------------------
\* SSBEditorController entry points.

\* add_breakpoint(line_number, view): the keys breakpoint_manager.add may be
\* called with ({}: it returns without calling it); f is the controller's
\* SsbLoadedFile, line the 0-indexed line.
add_breakpoint(f, buf, line) == _get_opcode_in_line(buf, line, FALSE)

\* remove_breakpoint that refuses for a file that is not breakable or whose
\* RAM state is out of date.
remove_breakpoint_of_breakable_file(f, mark) ==
    IF f.not_breakable \/ ~f.ram_state_up_to_date THEN {} ELSE {mark}

\* remove_breakpoint(mark): the keys breakpoint_manager.remove is called with;
\* f is the controller's SsbLoadedFile, which it does not read, and mark the
\* breakpoint line mark, named 'for:routine_<r>_opcode_<o>', by its key
\* <<r, o>>. MARK_PATTERN gives r and o as the decimal strings of the name,
\* and they are passed on as such, where add_breakpoint passes integers; the
\* key is taken here as the breakpoint manager identifies it.
remove_breakpoint(f, mark) == {mark}

\* on_sourcebuffer_delete_range for the range [p, p + 1): the keys of the
\* breakpoint line marks it calls remove_breakpoint for.
CharsInLine(text, p) ==
    Cardinality({q \in 0..(Len(text) - 1) : LineOf(text, q) = LineOf(text, p)})

on_sourcebuffer_delete_range(buf, p) ==
    IF LineOf(buf.text, p) # LineOf(buf.text, p + 1) \/ CharsInLine(buf.text, p) = 0
    THEN MarksAtPos(buf.bp, p)
            \cup (IF ForwardChar(buf.text, p) THEN MarksAtPos(buf.bp, p + 1) ELSE {})
    ELSE {}

\* save, from the calls of set_modified(False) to the call of
\* breakpoint_manager.resync: ed with _waiting_for_reload set and the TMP_
\* marks of both models' source maps.
SaveTmpMarks(ed, ssbs_source_map, exps_source_map) ==
    [ed EXCEPT !.waiting_for_reload = TRUE,
               !.ssbs = WithTmpMarks([@ EXCEPT !.modified = FALSE], ssbs_source_map),
               !.exps = WithTmpMarks([@ EXCEPT !.modified = FALSE], exps_source_map)]

----------------------------------------------------------------------------
VARIABLES
    open_files,     \* SsbFileManager._open_files
    editors,        \* filename -> its SSBEditorController, while it has one
    breakpoints,    \* BreakpointManager: filename -> set of keys
    gtk_queue,      \* callbacks queued for the GTK main loop (filenames)
    deferred,       \* history: filename -> what became of a deferred reload
    last,           \* the last operation: its arguments, results and effects
    threads         \* two operations on one file, run statement by statement
                    \* by the GTK thread and by a thread of the ground engine

vars == <<open_files, editors, breakpoints, gtk_queue, deferred, last, threads>>

\* deferred[fn]: "pending" since a save of fn returned False (the reload is
\* left for later), "emitted" once open_in_ground_engine has emitted the
\* reload event since, "no" from the next close_in_ground_engine on.
NoDeferred == [fn \in Filenames |-> "no"]

\* last: the operation, its file, what it returned (as a string) and what it
\* called: reloads, the calls of signal_editor_reload; scheduled, the callbacks
\* queued; deferred, the value of deferred[fn] when close_in_ground_engine
\* was called; warning, what warning_callback returned; reloaded, whether
\* on_ssb_reload ran; added / removed, the keys given to the breakpoint
\* manager's add / remove; saved, source_map, resync: whether save saved, the
\* source map the compiler returned and the keys given to resync; written, the
\* objects save_from_ssb_script assigned.
NoLast ==
    [op |-> "init", fn |-> None, ret |-> None,
     reloads |-> 0, scheduled |-> 0, deferred |-> "no", warning |-> None,
     reloaded |-> FALSE,
     added |-> {}, removed |-> {}, saved |-> FALSE, source_map |-> {},
     resync |-> {}, written |-> {}]

Ret(b) == IF b THEN "True" ELSE "False"

\* The two threads of the program: "gtk" runs the GTK main loop and with it
\* the editor's handlers, "engine" is the thread of the ground engine, which
\* reports the files it loads and unloads.
Threads == {"gtk", "engine"}

\* threads: fn, the file; start, its flags before the two operations; op,
\* the operation each thread runs; warning, what
\* warning_callback returns if called; pc, the statement each thread is at;
\* ret, what the operation of the GTK thread returned; source_map, the source
\* map the compiler returned; emitted, the calls of signal_editor_reload;
\* scheduled, the callbacks queued; handled, the runs of on_ssb_reload;
\* handled_by, the threads on_ssb_reload ran in.
NoThreads ==
    [fn |-> None, start |-> Flags(NewLoadedFile),
     op |-> [t \in Threads |-> None], warning |-> FALSE,
     pc |-> [t \in Threads |-> "done"], ret |-> None, source_map |-> {},
     emitted |-> 0, scheduled |-> 0, handled |-> 0, handled_by |-> {}]

Init ==
    /\ open_files = <<>>
    /\ editors = <<>>
    /\ breakpoints \in [Filenames -> SUBSET Keys]
    /\ gtk_queue = <<>>
    /\ deferred = NoDeferred
    /\ last = NoLast
    /\ threads = NoThreads

\* A file is opened in the editor: SsbFileManager.open_in_editor, and a new
\* SSBEditorController for it whose views are loaded from the file's models.
OpenInEditor(fn) ==
    /\ LET files == open_in_editor(open_files, fn)
       IN  IF fn \in DOMAIN editors
           THEN /\ open_files' = files
                /\ UNCHANGED editors
           ELSE \E text \in Texts, exps \in ExpsLoads :
                  \E sm \in SourceMaps(text) :
                    /\ open_files' = files
                    /\ editors' = editors @@ (fn :>
                            NewController(text, sm, exps[1], exps[2],
                                          saved_in_rom_get_for(breakpoints, fn)))
    /\ last' = [NoLast EXCEPT !.op = "open_in_editor", !.fn = fn]
    /\ UNCHANGED <<breakpoints, gtk_queue, deferred, threads>>

\* The editor's tab is closed: SsbFileManager.close_in_editor, and destroy()
\* of the controller when it returned True.
CloseInEditor(fn, warning) ==
    /\ fn \in DOMAIN editors
    /\ LET r == close_in_editor(open_files, fn, warning)
       IN  /\ open_files' = r.files
           /\ editors' = IF r.ret
                         THEN [g \in DOMAIN editors \ {fn} |-> editors[g]]
                         ELSE editors
           /\ last' = [NoLast EXCEPT !.op = "close_in_editor", !.fn = fn, !.ret = Ret(r.ret),
                                     !.warning = r.warning]
    /\ UNCHANGED <<breakpoints, gtk_queue, deferred, threads>>

OpenInGroundEngine(fn) ==
    /\ LET r == open_in_ground_engine(open_files, fn)
       IN  /\ open_files' = r.files
           /\ editors' = IF r.reloads > 0
                         THEN signal_editor_reload(editors, breakpoints, fn)
                         ELSE editors
           /\ last' = [NoLast EXCEPT !.op = "open_in_ground_engine", !.fn = fn, !.reloads = r.reloads,
                                     !.reloaded = r.reloads > 0 /\ fn \in DOMAIN editors]
           /\ deferred' = IF r.reloads > 0 /\ deferred[fn] = "pending"
                          THEN [deferred EXCEPT ![fn] = "emitted"]
                          ELSE deferred
    /\ UNCHANGED <<breakpoints, gtk_queue, threads>>

CloseInGroundEngine(fn) ==
    /\ LET r == close_in_ground_engine(open_files, fn)
       IN  /\ r.scheduled > 0 => Len(gtk_queue) < MaxQueue
           /\ open_files' = r.files
           /\ gtk_queue' = IF r.scheduled > 0
                           THEN threadsafe_now_or_gtk_nonblocking(gtk_queue, fn)
                           ELSE gtk_queue
           /\ last' = [NoLast EXCEPT !.op = "close_in_ground_engine", !.fn = fn,
                                     !.scheduled = r.scheduled,
                                     !.deferred = deferred[fn]]
    /\ deferred' = [deferred EXCEPT ![fn] = "no"]
    /\ UNCHANGED <<editors, breakpoints, threads>>

MarkInvalid(fn) ==
    /\ open_files' = mark_invalid(open_files, fn)
    /\ last' = [NoLast EXCEPT !.op = "mark_invalid", !.fn = fn]
    /\ UNCHANGED <<editors, breakpoints, gtk_queue, deferred, threads>>

\* The GTK main loop runs the callback close_in_ground_engine queued.
DeliverReload ==
    /\ gtk_queue # <<>>
    /\ LET fn == Head(gtk_queue)
       IN  /\ editors' = signal_editor_reload(editors, breakpoints, fn)
           /\ last' = [NoLast EXCEPT !.op = "deliver_reload", !.fn = fn, !.reloads = 1,
                                     !.reloaded = fn \in DOMAIN editors]
    /\ gtk_queue' = Tail(gtk_queue)
    /\ UNCHANGED <<open_files, breakpoints, deferred, threads>>

\* SsbFileManager.force_reload.
force_reload(eds, bps, filename) == signal_editor_reload(eds, bps, filename)

\* A caller of SsbFileManager.force_reload other than save: the method reads
\* self._open_files[filename] and tests nothing.
ForceReload(fn) ==
    /\ fn \in DOMAIN open_files
    /\ editors' = force_reload(editors, breakpoints, fn)
    /\ last' = [NoLast EXCEPT !.op = "force_reload", !.fn = fn, !.reloads = 1,
                              !.reloaded = fn \in DOMAIN editors]
    /\ UNCHANGED <<open_files, breakpoints, gtk_queue, deferred, threads>>

\* SSBEditorController.save; the compiler's source map for the text of the
\* SSBScript buffer is any source map of that text.
Save(fn) ==
    /\ fn \in DOMAIN editors
    /\ LET ed == editors[fn]
       IN  IF ~ed.ssbs.modified /\ ~ed.exps.modified
           THEN /\ last' = [NoLast EXCEPT !.op = "save", !.fn = fn]
                /\ UNCHANGED <<open_files, editors, breakpoints, deferred, threads>>
           ELSE \E outcome \in (IF ed.ssbs.modified THEN SaveOutcomes ELSE {"ok"}) :
                LET r1 == IF ed.ssbs.modified
                          THEN save_from_ssb_script(open_files, fn, outcome)
                          ELSE [files |-> open_files, ret |-> FALSE,
                                raised |-> None, written |-> {}]
                    r2 == IF ed.exps.modified
                          THEN save_from_explorerscript(r1.files, fn)
                          ELSE r1
                IN  IF r1.raised # None
                    THEN \* the exception leaves save at its first statement
                         /\ open_files' = r1.files
                         /\ last' = [NoLast EXCEPT
                                         !.op = "save", !.fn = fn,
                                         !.ret = r1.raised,
                                         !.written = r1.written]
                         /\ UNCHANGED <<editors, breakpoints, deferred, threads>>
                    ELSE
                \E sm \in (IF ed.ssbs.modified THEN SourceMaps(ed.ssbs.text) ELSE {{}}) :
                LET modified_buffer == IF ed.exps.modified THEN ed.exps ELSE ed.ssbs
                    exps_sm == CHOOSE x \in {e[2] : e \in ExpsLoads} : TRUE
                    ed1 == SaveTmpMarks(ed, sm, exps_sm)
                    buffer == IF explorerscript_active THEN ed1.exps ELSE ed1.ssbs
                IN  \E keys \in BreakpointsToResync(modified_buffer, buffer) :
                    LET bps == BreakpointManagerResync(breakpoints, fn, keys)
                        eds1 == [editors EXCEPT ![fn] = ed1]
                    IN  /\ open_files' = r2.files
                        /\ breakpoints' = bps
                        /\ editors' = IF r2.ret THEN force_reload(eds1, bps, fn)
                                      ELSE eds1
                        /\ deferred' = IF r2.ret THEN deferred
                                       ELSE [deferred EXCEPT ![fn] = "pending"]
                        /\ last' = [NoLast EXCEPT
                                        !.op = "save", !.fn = fn, !.ret = Ret(r2.ret),
                                        !.saved = TRUE, !.source_map = sm,
                                        !.resync = keys,
                                        !.written = r2.written,
                                        !.reloads = IF r2.ret THEN 1 ELSE 0,
                                        !.reloaded = r2.ret]
    /\ UNCHANGED <<gtk_queue, threads>>

\* on_sourceview_line_mark_activated: a click in the gutter of a view, at a
\* line (0-indexed).
LineMarkActivated(fn, view, line) ==
    /\ fn \in DOMAIN editors
    /\ line \in 0..(LineCount(editors[fn][view].text) - 1)
    /\ LET ed == editors[fn]
           buf == ed[view]
           marks == MarksAtPos(buf.bp, IterAtLine(buf.text, line))
           done(added, removed) ==
               /\ breakpoints' =
                    [breakpoints EXCEPT ![fn] = (@ \cup added) \ removed]
               /\ editors' = [editors EXCEPT ![fn] =
                    BreakpointsRemoved(BreakpointsAdded(ed, added), removed)]
               /\ last' = [NoLast EXCEPT !.op = "line_mark_activated", !.fn = fn,
                                         !.added = added, !.removed = removed]
       IN  IF \/ explorerscript_active /\ view = "ssbs"
              \/ ~explorerscript_active /\ view = "exps"
           THEN done({}, {})
           ELSE IF marks = {}
           THEN IF add_breakpoint(open_files[fn], buf, line) = {}
                THEN done({}, {})
                ELSE \E k \in add_breakpoint(open_files[fn], buf, line) : done({k}, {})
           ELSE \E k \in marks : done({}, remove_breakpoint(open_files[fn], k))
    /\ UNCHANGED <<open_files, gtk_queue, deferred, threads>>

\* The user types one character into the SSBScript view (the only editable
\* one, _update_view_editable_state).
InsertText(fn, p, ch) ==
    /\ fn \in DOMAIN editors
    /\ Len(editors[fn].ssbs.text) < MaxLen
    /\ p \in 0..Len(editors[fn].ssbs.text)
    /\ editors' = [editors EXCEPT ![fn].ssbs = BufferInsert(@, p, ch)]
    /\ last' = [NoLast EXCEPT !.op = "insert_text", !.fn = fn]
    /\ UNCHANGED <<open_files, breakpoints, gtk_queue, deferred, threads>>

\* The user deletes one character of the SSBScript view: the delete-range
\* handler of the controller, then the deletion.
DeleteText(fn, p) ==
    /\ fn \in DOMAIN editors
    /\ p \in 0..(Len(editors[fn].ssbs.text) - 1)
    /\ LET ed == editors[fn]
           removed == UNION {remove_breakpoint(open_files[fn], m) :
                                m \in on_sourcebuffer_delete_range(ed.ssbs, p)}
           ed1 == BreakpointsRemoved(ed, removed)
       IN  /\ breakpoints' = [breakpoints EXCEPT ![fn] = @ \ removed]
           /\ editors' = [editors EXCEPT ![fn] =
                            [ed1 EXCEPT !.ssbs = BufferDelete(@, p)]]
           /\ last' = [NoLast EXCEPT !.op = "delete_text", !.fn = fn, !.removed = removed]
    /\ UNCHANGED <<open_files, gtk_queue, deferred, threads>>

Next ==
    \/ \E fn \in Filenames : OpenInEditor(fn)
    \/ \E fn \in Filenames, warning \in BOOLEAN : CloseInEditor(fn, warning)
    \/ \E fn \in Filenames : OpenInGroundEngine(fn)
    \/ \E fn \in Filenames : CloseInGroundEngine(fn)
    \/ \E fn \in Filenames : MarkInvalid(fn)
    \/ \E fn \in Filenames : Save(fn)
    \/ \E fn \in Filenames : ForceReload(fn)
    \/ \E fn \in Filenames, view \in Views, line \in 0..MaxLen :
            LineMarkActivated(fn, view, line)
    \/ \E fn \in Filenames, p \in 0..MaxLen, ch \in Chars : InsertText(fn, p, ch)
    \/ \E fn \in Filenames, p \in 0..MaxLen : DeleteText(fn, p)
    \/ DeliverReload

Spec == Init /\ [][Next]_vars

\* The lifecycle of a file under a GTK main loop that keeps running the
\* callbacks queued for it: the steps that change the flags of a file, the
\* queue or "deferred", and of the user's edits (which leave all three
\* unchanged) the one a save needs to find a modified buffer.
NextLifecycle ==
    \/ \E fn \in Filenames : OpenInEditor(fn)
    \/ \E fn \in Filenames, warning \in BOOLEAN : CloseInEditor(fn, warning)
    \/ \E fn \in Filenames : OpenInGroundEngine(fn)
    \/ \E fn \in Filenames : CloseInGroundEngine(fn)
    \/ \E fn \in Filenames : MarkInvalid(fn)
    \/ \E fn \in Filenames : Save(fn)
    \/ \E fn \in Filenames : ForceReload(fn)
    \/ \E fn \in Filenames : InsertText(fn, 0, "c")
    \/ DeliverReload

\* The lifecycle steps in any order, with no assumption on the main loop.
SpecLifecycle == Init /\ [][NextLifecycle]_vars

\* A caller of SsbFileManager.save_from_explorerscript: the method compiles
\* nothing ('pass  # todo') and returns _handle_after_save(filename), which
\* reads self._open_files[filename]; the ExplorerScript text is not read.
SaveFromExplorerscript(fn) ==
    /\ fn \in DOMAIN open_files
    /\ LET r == save_from_explorerscript(open_files, fn)
       IN  /\ open_files' = r.files
           /\ deferred' = IF r.ret THEN deferred
                          ELSE [deferred EXCEPT ![fn] = "pending"]
           /\ last' = [NoLast EXCEPT !.op = "save_from_explorerscript",
                                     !.fn = fn, !.ret = Ret(r.ret),
                                     !.written = r.written]
    /\ UNCHANGED <<editors, breakpoints, gtk_queue, threads>>

\* The lifecycle steps with the clicks in the gutter and the deletion of the
\* first character.
NextBreakpoints ==
    \/ NextLifecycle
    \/ \E fn \in Filenames, view \in Views, line \in 0..MaxLen :
            LineMarkActivated(fn, view, line)
    \/ \E fn \in Filenames : DeleteText(fn, 0)

SpecBreakpoints == Init /\ [][NextBreakpoints]_vars

\* The ROM's answer to getFileByName(filename) with deserialize: the file's
\* model, or an exception ("StorageError") for a file it cannot give.
ArchiveOutcomes == {"ok", "StorageError"}

\* get raises: only a file not yet in _open_files is read from the ROM, and
\* the exception leaves the assignment to self._open_files[filename] undone.
get_raises(files, filename, outcome) ==
    filename \notin DOMAIN files /\ outcome # "ok"

\* A caller of SsbFileManager.get (hash_for, or the debugger).
Get(fn) ==
    /\ \E outcome \in ArchiveOutcomes :
          IF get_raises(open_files, fn, outcome)
          THEN /\ UNCHANGED open_files
               /\ last' = [NoLast EXCEPT !.op = "get", !.fn = fn, !.ret = outcome]
          ELSE /\ open_files' = get(open_files, fn)
               /\ last' = [NoLast EXCEPT !.op = "get", !.fn = fn]
    /\ UNCHANGED <<editors, breakpoints, gtk_queue, deferred, threads>>

\* The steps while the ground engine never unloads the file: no callback is
\* ever queued, and a reload reaches the editor only from
\* open_in_ground_engine or from the save that returned True.
NextEngineHolds ==
    \/ \E fn \in Filenames : OpenInEditor(fn)
    \/ \E fn \in Filenames, warning \in BOOLEAN : CloseInEditor(fn, warning)
    \/ \E fn \in Filenames : OpenInGroundEngine(fn)
    \/ \E fn \in Filenames : MarkInvalid(fn)
    \/ \E fn \in Filenames : Save(fn)
    \/ \E fn \in Filenames, p \in 0..MaxLen : InsertText(fn, p, "c")
    \/ \E fn \in Filenames : DeleteText(fn, 0)

SpecEngineHolds == Init /\ [][NextEngineHolds]_vars

\* The steps of the file manager and the editor without mark_invalid.
NextNoMarkInvalid ==
    \/ \E fn \in Filenames : Get(fn)
    \/ \E fn \in Filenames : OpenInEditor(fn)
    \/ \E fn \in Filenames, warning \in BOOLEAN : CloseInEditor(fn, warning)
    \/ \E fn \in Filenames : OpenInGroundEngine(fn)
    \/ \E fn \in Filenames : CloseInGroundEngine(fn)
    \/ \E fn \in Filenames : Save(fn)
    \/ \E fn \in Filenames : SaveFromExplorerscript(fn)
    \/ \E fn \in Filenames : ForceReload(fn)
    \/ \E fn \in Filenames : InsertText(fn, 0, "c")
    \/ DeliverReload

SpecNoMarkInvalid == Init /\ [][NextNoMarkInvalid]_vars

\* Two files: "g" is opened, loaded, invalidated and closed like "f", but only
\* "f" is typed into and saved, and both editors start from an empty text.
TwoFilenames == {"f", "g"}

InitTwoFiles ==
    /\ open_files = <<>>
    /\ editors = <<>>
    /\ breakpoints = [fn \in TwoFilenames |-> {}]
    /\ gtk_queue = <<>>
    /\ deferred = [fn \in TwoFilenames |-> "no"]
    /\ last = NoLast
    /\ threads = NoThreads

OpenEmptyInEditor(fn) ==
    /\ OpenInEditor(fn)
    /\ editors'[fn].ssbs.text = <<>>

NextTwoFiles ==
    \/ \E fn \in TwoFilenames : Get(fn)
    \/ \E fn \in TwoFilenames : OpenEmptyInEditor(fn)
    \/ \E fn \in TwoFilenames, warning \in BOOLEAN : CloseInEditor(fn, warning)
    \/ \E fn \in TwoFilenames : OpenInGroundEngine(fn)
    \/ \E fn \in TwoFilenames : CloseInGroundEngine(fn)
    \/ \E fn \in TwoFilenames : MarkInvalid(fn)
    \/ Save("f")
    \/ \E fn \in TwoFilenames : ForceReload(fn)
    \/ InsertText("f", 0, "c")
    \/ DeliverReload

SpecTwoFiles == InitTwoFiles /\ [][NextTwoFiles]_vars

NextManager ==
    \/ NextLifecycle
    \/ \E fn \in Filenames : SaveFromExplorerscript(fn)

\* The lifecycle steps and the file manager's save of the ExplorerScript
\* text, in any order.
SpecManager == Init /\ [][NextManager]_vars

SpecFair == Init /\ [][NextLifecycle]_vars /\ WF_vars(DeliverReload)

----------------------------------------------------------------------------
\* Two operations on one file run at the same time: SsbFileManager holds no
\* lock, so between two statements of the one any statement of the other may
\* run.  "gtk" runs a handler of the editor (save, or the closing of the tab),
\* "engine" one of the notifications of the ground engine; the labels of pc
\* are the lines of file_manager.py (s, c, o, g, m) and ssb_editor.py (e).
\* "deferred" and "last" describe whole operations and stay as they are.

GtkOps == {"save", "close_in_editor"}
EngineOps == {"open_in_ground_engine", "close_in_ground_engine", "mark_invalid"}

\* The flags of a file whose editor has saved nothing yet, as the lifecycle
\* steps leave them: ram_state_up_to_date is then false only after
\* mark_invalid or a confirmed close_in_editor, which set not_breakable.
StartFlags ==
    {f \in [opened_in_editor : {TRUE}, opened_in_ground_engine : BOOLEAN,
            ram_state_up_to_date : BOOLEAN, not_breakable : BOOLEAN] :
        f.ram_state_up_to_date \/ f.not_breakable}

\* The editor of a file opened empty, after two characters were typed.
StartEditor(bps) ==
    [NewController(<<>>, {}, <<>>, {}, bps) EXCEPT
        !.ssbs = BufferInsert(BufferInsert(@, 0, "c"), 0, "c")]

InitThreads ==
    \E fn \in Filenames, flags \in StartFlags :
        /\ open_files = (fn :> flags)
        /\ breakpoints \in [Filenames -> SUBSET Keys]
        /\ editors = (fn :> StartEditor(saved_in_rom_get_for(breakpoints, fn)))
        /\ gtk_queue = <<>>
        /\ deferred = NoDeferred
        /\ last = NoLast
        /\ \E g \in GtkOps, e \in EngineOps, warning \in BOOLEAN :
            threads = [NoThreads EXCEPT
                            !.fn = fn, !.start = flags, !.warning = warning,
                            !.op = [t \in Threads |-> IF t = "gtk" THEN g ELSE e],
                            !.pc = [t \in Threads |-> "idle"]]

\* save is in progress: from the call of the compiler until resync returned.
SaveInProgress ==
    /\ threads.op["gtk"] = "save"
    /\ threads.pc["gtk"] \in {"s63", "s144", "s145", "s146", "e133", "e158"}

\* signal_editor_reload() called by thread t, which then is at "next": the
\* editor of the file, if there is one, runs on_ssb_reload in that thread.
ThreadSignalsReload(t, next) ==
    /\ editors' = signal_editor_reload(editors, breakpoints, threads.fn)
    /\ threads' = [threads EXCEPT
                        !.pc[t] = next,
                        !.emitted = @ + 1,
                        !.handled = IF threads.fn \in DOMAIN editors
                                    THEN @ + 1 ELSE @,
                        !.handled_by = IF threads.fn \in DOMAIN editors
                                       THEN @ \cup {t} ELSE @]

\* SSBEditorController.save of a modified SSBScript view, with
\* save_from_ssb_script and _handle_after_save, the compiler and the archive
\* succeeding.
ThreadSave ==
    LET fn == threads.fn
        pc == threads.pc["gtk"]
    IN  /\ threads.op["gtk"] = "save"
        /\ \/ /\ pc = "idle"
              /\ threads' = [threads EXCEPT !.pc["gtk"] = "s63"]
              /\ UNCHANGED <<open_files, editors, breakpoints>>
           \/ /\ pc = "s63"
              /\ \E sm \in SourceMaps(editors[fn].ssbs.text) :
                    threads' = [threads EXCEPT !.pc["gtk"] = "s144",
                                               !.source_map = sm]
              /\ UNCHANGED <<open_files, editors, breakpoints>>
           \/ /\ pc = "s144"
              /\ open_files' = [open_files EXCEPT
                                    ![fn].ram_state_up_to_date = FALSE]
              /\ threads' = [threads EXCEPT !.pc["gtk"] = "s145"]
              /\ UNCHANGED <<editors, breakpoints>>
           \/ /\ pc = "s145"
              /\ threads' = IF ~open_files[fn].opened_in_ground_engine
                            THEN [threads EXCEPT !.pc["gtk"] = "s146"]
                            ELSE [threads EXCEPT !.pc["gtk"] = "e133",
                                                 !.ret = "False"]
              /\ UNCHANGED <<open_files, editors, breakpoints>>
           \/ /\ pc = "s146"
              /\ open_files' = [open_files EXCEPT
                                    ![fn].ram_state_up_to_date = TRUE]
              /\ threads' = [threads EXCEPT !.pc["gtk"] = "e133",
                                            !.ret = "True"]
              /\ UNCHANGED <<editors, breakpoints>>
           \/ /\ pc = "e133"
              /\ editors' = [editors EXCEPT
                                ![fn] = SaveTmpMarks(@, threads.source_map, {})]
              /\ threads' = [threads EXCEPT !.pc["gtk"] = "e158"]
              /\ UNCHANGED <<open_files, breakpoints>>
           \/ /\ pc = "e158"
              /\ \E keys \in BreakpointsToResync(editors[fn].ssbs,
                                                 editors[fn].ssbs) :
                    breakpoints' = BreakpointManagerResync(breakpoints, fn, keys)
              /\ threads' = [threads EXCEPT !.pc["gtk"] = "e169"]
              /\ UNCHANGED <<open_files, editors>>
           \/ /\ pc = "e169"
              /\ IF threads.ret = "True"
                 THEN ThreadSignalsReload("gtk", "done")
                 ELSE /\ threads' = [threads EXCEPT !.pc["gtk"] = "done"]
                      /\ UNCHANGED editors
              /\ UNCHANGED <<open_files, breakpoints>>
        /\ UNCHANGED <<gtk_queue, deferred, last>>

\* SsbFileManager.close_in_editor, and destroy() of the controller when it
\* returned True.
ThreadCloseInEditor ==
    LET fn == threads.fn
        pc == threads.pc["gtk"]
    IN  /\ threads.op["gtk"] = "close_in_editor"
        /\ \/ /\ pc = "idle"
              /\ threads' = [threads EXCEPT !.pc["gtk"] = "c117"]
              /\ UNCHANGED <<open_files, editors>>
           \/ /\ pc = "c117"
              /\ threads' =
                    IF open_files[fn].ram_state_up_to_date
                    THEN [threads EXCEPT !.pc["gtk"] = "c122"]
                    ELSE IF threads.warning
                    THEN [threads EXCEPT !.pc["gtk"] = "c120"]
                    ELSE [threads EXCEPT !.pc["gtk"] = "done", !.ret = "False"]
              /\ UNCHANGED <<open_files, editors>>
           \/ /\ pc = "c120"
              /\ open_files' = [open_files EXCEPT ![fn].not_breakable = TRUE]
              /\ threads' = [threads EXCEPT !.pc["gtk"] = "c122"]
              /\ UNCHANGED editors
           \/ /\ pc = "c122"
              /\ open_files' = [open_files EXCEPT ![fn].opened_in_editor = FALSE]
              /\ editors' = [g \in DOMAIN editors \ {fn} |-> editors[g]]
              /\ threads' = [threads EXCEPT !.pc["gtk"] = "done", !.ret = "True"]
        /\ UNCHANGED <<breakpoints, gtk_queue, deferred, last>>

\* SsbFileManager.open_in_ground_engine: its reload runs in the calling
\* thread.
ThreadOpenInGroundEngine ==
    LET fn == threads.fn
        pc == threads.pc["engine"]
    IN  /\ threads.op["engine"] = "open_in_ground_engine"
        /\ \/ /\ pc = "idle"
              /\ threads' = [threads EXCEPT !.pc["engine"] = "o103"]
              /\ UNCHANGED <<open_files, editors>>
           \/ /\ pc = "o103"
              /\ open_files' = [open_files EXCEPT
                                    ![fn].opened_in_ground_engine = TRUE]
              /\ threads' = [threads EXCEPT !.pc["engine"] = "o105"]
              /\ UNCHANGED editors
           \/ /\ pc = "o105"
              /\ threads' = [threads EXCEPT !.pc["engine"] =
                                IF ~open_files[fn].ram_state_up_to_date
                                THEN "o106" ELSE "done"]
              /\ UNCHANGED <<open_files, editors>>
           \/ /\ pc = "o106"
              /\ open_files' = [open_files EXCEPT
                                    ![fn].ram_state_up_to_date = TRUE]
              /\ threads' = [threads EXCEPT !.pc["engine"] = "o107"]
              /\ UNCHANGED editors
           \/ /\ pc = "o107"
              /\ open_files' = [open_files EXCEPT ![fn].not_breakable = FALSE]
              /\ threads' = [threads EXCEPT !.pc["engine"] = "o108"]
              /\ UNCHANGED editors
           \/ /\ pc = "o108"
              /\ ThreadSignalsReload("engine", "done")
              /\ UNCHANGED open_files
        /\ UNCHANGED <<breakpoints, gtk_queue, deferred, last>>

\* close_in_ground_engine that calls signal_editor_reload() itself, as
\* open_in_ground_engine does.
ThreadCloseInGroundEngine_reloads_inline ==
    LET fn == threads.fn
        pc == threads.pc["engine"]
    IN  /\ threads.op["engine"] = "close_in_ground_engine"
        /\ \/ /\ pc = "idle"
              /\ threads' = [threads EXCEPT !.pc["engine"] = "g131"]
              /\ UNCHANGED <<open_files, editors>>
           \/ /\ pc = "g131"
              /\ open_files' = [open_files EXCEPT
                                    ![fn].opened_in_ground_engine = FALSE]
              /\ threads' = [threads EXCEPT !.pc["engine"] = "g132"]
              /\ UNCHANGED editors
           \/ /\ pc = "g132"
              /\ open_files' = [open_files EXCEPT ![fn].not_breakable = FALSE]
              /\ threads' = [threads EXCEPT !.pc["engine"] = "g133"]
              /\ UNCHANGED editors
           \/ /\ pc = "g133"
              /\ IF ~open_files[fn].ram_state_up_to_date
                 THEN ThreadSignalsReload("engine", "g135")
                 ELSE /\ threads' = [threads EXCEPT !.pc["engine"] = "g135"]
                      /\ UNCHANGED editors
              /\ UNCHANGED open_files
           \/ /\ pc = "g135"
              /\ open_files' = [open_files EXCEPT
                                    ![fn].ram_state_up_to_date = TRUE]
              /\ threads' = [threads EXCEPT !.pc["engine"] = "done"]
              /\ UNCHANGED editors
        /\ UNCHANGED <<breakpoints, gtk_queue, deferred, last>>

\* close_in_ground_engine that tests ram_state_up_to_date before it clears
\* opened_in_ground_engine.
ThreadCloseInGroundEngine_tests_ram_first ==
    LET fn == threads.fn
        pc == threads.pc["engine"]
    IN  /\ threads.op["engine"] = "close_in_ground_engine"
        /\ \/ /\ pc = "idle"
              /\ threads' = [threads EXCEPT !.pc["engine"] = "g133"]
              /\ UNCHANGED <<open_files, gtk_queue>>
           \/ /\ pc = "g133"
              /\ IF ~open_files[fn].ram_state_up_to_date
                 THEN /\ gtk_queue' = threadsafe_now_or_gtk_nonblocking(gtk_queue, fn)
                      /\ threads' = [threads EXCEPT !.pc["engine"] = "g131",
                                                    !.scheduled = @ + 1]
                 ELSE /\ threads' = [threads EXCEPT !.pc["engine"] = "g131"]
                      /\ UNCHANGED gtk_queue
              /\ UNCHANGED open_files
           \/ /\ pc = "g131"
              /\ open_files' = [open_files EXCEPT
                                    ![fn].opened_in_ground_engine = FALSE]
              /\ threads' = [threads EXCEPT !.pc["engine"] = "g132"]
              /\ UNCHANGED gtk_queue
           \/ /\ pc = "g132"
              /\ open_files' = [open_files EXCEPT ![fn].not_breakable = FALSE]
              /\ threads' = [threads EXCEPT !.pc["engine"] = "g135"]
              /\ UNCHANGED gtk_queue
           \/ /\ pc = "g135"
              /\ open_files' = [open_files EXCEPT
                                    ![fn].ram_state_up_to_date = TRUE]
              /\ threads' = [threads EXCEPT !.pc["engine"] = "done"]
              /\ UNCHANGED gtk_queue
        /\ UNCHANGED <<editors, breakpoints, deferred, last>>

\* SsbFileManager.close_in_ground_engine: its reload is queued for the GTK
\* main loop.
ThreadCloseInGroundEngine ==
    LET fn == threads.fn
        pc == threads.pc["engine"]
    IN  /\ threads.op["engine"] = "close_in_ground_engine"
        /\ \/ /\ pc = "idle"
              /\ threads' = [threads EXCEPT !.pc["engine"] = "g131"]
              /\ UNCHANGED <<open_files, gtk_queue>>
           \/ /\ pc = "g131"
              /\ open_files' = [open_files EXCEPT
                                    ![fn].opened_in_ground_engine = FALSE]
              /\ threads' = [threads EXCEPT !.pc["engine"] = "g132"]
              /\ UNCHANGED gtk_queue
           \/ /\ pc = "g132"
              /\ open_files' = [open_files EXCEPT ![fn].not_breakable = FALSE]
              /\ threads' = [threads EXCEPT !.pc["engine"] = "g133"]
              /\ UNCHANGED gtk_queue
           \/ /\ pc = "g133"
              /\ IF ~open_files[fn].ram_state_up_to_date
                 THEN /\ gtk_queue' = threadsafe_now_or_gtk_nonblocking(gtk_queue, fn)
                      /\ threads' = [threads EXCEPT !.pc["engine"] = "g135",
                                                    !.scheduled = @ + 1]
                 ELSE /\ threads' = [threads EXCEPT !.pc["engine"] = "g135"]
                      /\ UNCHANGED gtk_queue
              /\ UNCHANGED open_files
           \/ /\ pc = "g135"
              /\ open_files' = [open_files EXCEPT
                                    ![fn].ram_state_up_to_date = TRUE]
              /\ threads' = [threads EXCEPT !.pc["engine"] = "done"]
              /\ UNCHANGED gtk_queue
        /\ UNCHANGED <<editors, breakpoints, deferred, last>>

\* SsbFileManager.mark_invalid.
ThreadMarkInvalid ==
    LET fn == threads.fn
        pc == threads.pc["engine"]
    IN  /\ threads.op["engine"] = "mark_invalid"
        /\ \/ /\ pc = "idle"
              /\ threads' = [threads EXCEPT !.pc["engine"] = "m159"]
              /\ UNCHANGED open_files
           \/ /\ pc = "m159"
              /\ open_files' = [open_files EXCEPT
                                    ![fn].ram_state_up_to_date = FALSE]
              /\ threads' = [threads EXCEPT !.pc["engine"] = "m160"]
           \/ /\ pc = "m160"
              /\ open_files' = [open_files EXCEPT ![fn].not_breakable = TRUE]
              /\ threads' = [threads EXCEPT !.pc["engine"] = "done"]
        /\ UNCHANGED <<editors, breakpoints, gtk_queue, deferred, last>>

\* The GTK main loop runs a queued callback when no handler of the editor is
\* running.
ThreadDeliverReload ==
    /\ gtk_queue # <<>>
    /\ threads.pc["gtk"] \in {"idle", "done"}
    /\ editors' = signal_editor_reload(editors, breakpoints, Head(gtk_queue))
    /\ gtk_queue' = Tail(gtk_queue)
    /\ threads' = [threads EXCEPT
                        !.handled = IF Head(gtk_queue) \in DOMAIN editors
                                    THEN @ + 1 ELSE @,
                        !.handled_by = IF Head(gtk_queue) \in DOMAIN editors
                                       THEN @ \cup {"gtk"} ELSE @]
    /\ UNCHANGED <<open_files, breakpoints, deferred, last>>

NextThreads ==
    \/ ThreadSave
    \/ ThreadCloseInEditor
    \/ ThreadOpenInGroundEngine
    \/ ThreadCloseInGroundEngine
    \/ ThreadMarkInvalid
    \/ ThreadDeliverReload

SpecThreads == InitThreads /\ [][NextThreads]_vars

\* What the two operations leave when both have returned: the flags, the
\* return value of the editor's operation and the number of reload events.
ThreadsOutcome ==
    [flags |-> Flags(open_files[threads.fn]),
     ret |-> threads.ret,
     reloads |-> threads.emitted + threads.scheduled]

\* The outcome of operation op called as a whole on outcome o.
SerialStep(o, op, fn, warning) ==
    LET files == (fn :> o.flags)
    IN  IF op = "save"
        THEN LET r == _handle_after_save(files, fn)
             IN  [flags |-> Flags(r.files[fn]), ret |-> Ret(r.ret),
                  reloads |-> o.reloads + (IF r.ret THEN 1 ELSE 0)]
        ELSE IF op = "close_in_editor"
        THEN LET r == close_in_editor(files, fn, warning)
             IN  [flags |-> Flags(r.files[fn]), ret |-> Ret(r.ret),
                  reloads |-> o.reloads]
        ELSE IF op = "open_in_ground_engine"
        THEN LET r == open_in_ground_engine(files, fn)
             IN  [o EXCEPT !.flags = Flags(r.files[fn]),
                           !.reloads = @ + r.reloads]
        ELSE IF op = "close_in_ground_engine"
        THEN LET r == close_in_ground_engine(files, fn)
             IN  [o EXCEPT !.flags = Flags(r.files[fn]),
                           !.reloads = @ + r.scheduled]
        ELSE [o EXCEPT !.flags = Flags(mark_invalid(files, fn)[fn])]

\* The outcomes of the two operations called one after the other, in either
\* order, on a file whose flags are "flags".
SerialOutcomes(flags, g, e, fn, warning) ==
    LET o == [flags |-> flags, ret |-> None, reloads |-> 0]
    IN  {SerialStep(SerialStep(o, g, fn, warning), e, fn, warning),
         SerialStep(SerialStep(o, e, fn, warning), g, fn, warning)}

----------------------------------------------------------------------------
\* Properties.

\* C1: an add_breakpoint issued while the file's not_breakable flag is true
\* never succeeds: the breakpoint manager's add is not called and no key
\* enters the store's key set of the file.
C1_AddRejectedWhileNotBreakable ==
    [][\A fn \in Filenames :
        (/\ last'.op = "line_mark_activated" /\ last'.fn = fn
         /\ fn \in DOMAIN open_files /\ open_files[fn].not_breakable)
        => (/\ last'.added = {}
            /\ breakpoints'[fn] \subseteq breakpoints[fn])]_vars

\* C2: a save that compiled and persisted returns True (reload ready) if and
\* only if opened_in_ground_engine is false; ram_state_up_to_date ends true
\* when it returned True and false when it returned False; the three other
\* flags are unchanged.
C2_SaveReadyIffNotInGroundEngine ==
    [][\A fn \in Filenames :
        (last'.op = "save" /\ last'.fn = fn /\ last'.saved) =>
            LET before == get(open_files, fn)[fn]
                after == open_files'[fn]
            IN  /\ (last'.ret = "True") <=> ~before.opened_in_ground_engine
                /\ last'.ret \in {"True", "False"}
                /\ after.ram_state_up_to_date <=> (last'.ret = "True")
                /\ after.opened_in_editor = before.opened_in_editor
                /\ after.opened_in_ground_engine = before.opened_in_ground_engine
                /\ after.not_breakable = before.not_breakable]_vars

C2_Witness ==
    /\ last.op = "save" /\ last.saved /\ last.ret = "False"
    /\ open_files[last.fn].opened_in_ground_engine
    /\ ~open_files[last.fn].ram_state_up_to_date

\* C3: open_in_ground_engine called while ram_state_up_to_date is false ends
\* with opened_in_ground_engine and ram_state_up_to_date true and
\* not_breakable false, emits exactly one reload event and leaves
\* opened_in_editor unchanged.
C3_OpenInGroundEngineReloads ==
    [][\A fn \in Filenames :
        (/\ last'.op = "open_in_ground_engine" /\ last'.fn = fn
         /\ fn \in DOMAIN open_files
         /\ ~open_files[fn].ram_state_up_to_date)
        => (/\ open_files'[fn].opened_in_ground_engine
            /\ open_files'[fn].ram_state_up_to_date
            /\ ~open_files'[fn].not_breakable
            /\ last'.reloads = 1
            /\ last'.reloaded <=> fn \in DOMAIN editors
            /\ open_files'[fn].opened_in_editor = open_files[fn].opened_in_editor)]_vars

C3_Witness ==
    /\ last.op = "open_in_ground_engine" /\ last.reloads = 1 /\ last.reloaded
    /\ open_files[last.fn].opened_in_editor

\* C4: close_in_ground_engine ends with opened_in_ground_engine false,
\* not_breakable false and ram_state_up_to_date true; it schedules exactly one
\* reload when ram_state_up_to_date was false on entry and none when it was
\* true; opened_in_editor is unchanged.
C4_CloseInGroundEngineSchedules ==
    [][\A fn \in Filenames :
        (last'.op = "close_in_ground_engine" /\ last'.fn = fn) =>
            LET before == get(open_files, fn)[fn]
                after == open_files'[fn]
            IN  /\ ~after.opened_in_ground_engine
                /\ ~after.not_breakable
                /\ after.ram_state_up_to_date
                /\ last'.scheduled = IF before.ram_state_up_to_date THEN 0 ELSE 1
                /\ Len(gtk_queue') = Len(gtk_queue) + last'.scheduled
                /\ after.opened_in_editor = before.opened_in_editor]_vars

C4_Witness ==
    /\ last.op = "close_in_ground_engine" /\ last.scheduled = 1
    /\ gtk_queue # <<>>
    /\ open_files[last.fn].ram_state_up_to_date

\* C5: close_in_editor called while ram_state_up_to_date is false, with a
\* confirmation callback that returns false, returns false and leaves the
\* four flags of the file as they were.
C5_DeclinedCloseChangesNothing ==
    [][\A fn \in Filenames :
        (/\ last'.op = "close_in_editor" /\ last'.fn = fn
         /\ ~open_files[fn].ram_state_up_to_date
         /\ last'.warning = "False")
        => (/\ last'.ret = "False"
            /\ Flags(open_files'[fn]) = Flags(open_files[fn]))]_vars

C5_Witness ==
    /\ last.op = "close_in_editor" /\ last.warning = "False" /\ last.ret = "False"
    /\ ~open_files[last.fn].ram_state_up_to_date
    /\ open_files[last.fn].opened_in_editor

\* C6: close_in_editor with ram_state_up_to_date false and a confirmation
\* that returns true sets not_breakable, clears opened_in_editor and returns
\* true; with ram_state_up_to_date true it does not call the confirmation,
\* leaves not_breakable, clears opened_in_editor and returns true; neither
\* changes ram_state_up_to_date or opened_in_ground_engine.
C6_CloseInEditorCloses ==
    [][\A fn \in Filenames :
        (last'.op = "close_in_editor" /\ last'.fn = fn) =>
            LET before == open_files[fn]
                after == open_files'[fn]
            IN  /\ (~before.ram_state_up_to_date /\ last'.warning = "True") =>
                    (/\ after.not_breakable /\ ~after.opened_in_editor
                     /\ last'.ret = "True")
                /\ before.ram_state_up_to_date =>
                    (/\ last'.warning = None
                     /\ after.not_breakable = before.not_breakable
                     /\ ~after.opened_in_editor
                     /\ last'.ret = "True")
                /\ after.ram_state_up_to_date = before.ram_state_up_to_date
                /\ after.opened_in_ground_engine = before.opened_in_ground_engine]_vars

C6_Witness ==
    /\ last.op = "close_in_editor" /\ last.warning = "True" /\ last.ret = "True"
    /\ open_files[last.fn].not_breakable
    /\ ~open_files[last.fn].opened_in_editor
    /\ last.fn \notin DOMAIN editors
\* C7, as stated: after a save returned False (reload deferred), a later
\* close_in_ground_engine of the file schedules a reload and leaves
\* ram_state_up_to_date true, and every scheduled reload is eventually
\* delivered.
C7_LaterCloseSchedulesReload ==
    /\ [][\A fn \in Filenames :
            (/\ last'.op = "close_in_ground_engine" /\ last'.fn = fn
             /\ deferred[fn] # "no")
            => (/\ last'.scheduled = 1
                /\ open_files'[fn].ram_state_up_to_date)]_vars
    /\ \A fn \in Filenames :
            (\E i \in 1..Len(gtk_queue) : gtk_queue[i] = fn)
                ~> (last.op = "deliver_reload" /\ last.fn = fn)

\* C7, amended: while the reload a save deferred is pending,
\* ram_state_up_to_date stays false; the first open_in_ground_engine or
\* close_in_ground_engine that follows emits it: open_in_ground_engine emits
\* one reload event at once, close_in_ground_engine schedules one and leaves
\* ram_state_up_to_date true; every scheduled reload is eventually delivered.
C7_DeferredReloadNotLost ==
    /\ [](\A fn \in Filenames :
            deferred[fn] = "pending" =>
                (/\ fn \in DOMAIN open_files
                 /\ open_files[fn].opened_in_ground_engine
                 /\ ~open_files[fn].ram_state_up_to_date))
    /\ [][\A fn \in Filenames :
            (/\ last'.op = "close_in_ground_engine" /\ last'.fn = fn
             /\ deferred[fn] = "pending")
            => (/\ last'.scheduled = 1
                /\ gtk_queue' = Append(gtk_queue, fn)
                /\ open_files'[fn].ram_state_up_to_date)]_vars
    /\ [][\A fn \in Filenames :
            (/\ last'.op = "open_in_ground_engine" /\ last'.fn = fn
             /\ deferred[fn] = "pending")
            => (/\ last'.reloads = 1
                /\ open_files'[fn].ram_state_up_to_date)]_vars
    /\ [][\A fn \in Filenames :
            (/\ last'.op = "close_in_ground_engine" /\ last'.fn = fn
             /\ deferred[fn] = "emitted")
            => last'.scheduled = IF open_files[fn].ram_state_up_to_date
                                 THEN 0 ELSE 1]_vars
    /\ \A fn \in Filenames :
            (\E i \in 1..Len(gtk_queue) : gtk_queue[i] = fn)
                ~> (last.op = "deliver_reload" /\ last.fn = fn)

C7_Witness ==
    /\ last.op = "close_in_ground_engine" /\ last.deferred = "pending"
    /\ last.scheduled = 1
    /\ gtk_queue # <<>>
    /\ open_files[last.fn].ram_state_up_to_date

\* C8: once a reload event has been processed by the editor, the breakpoint
\* line marks of each view's buffer are those of the keys the breakpoint
\* manager holds for the file that have a routine_ mark in that buffer: one
\* line mark for each such key, none for any other key.
C8_LineMarksAfterReload ==
    \A fn \in Filenames :
        (last.reloaded /\ last.fn = fn) =>
            \A view \in Views :
                {k \in Keys : editors[fn][view].bp[k] # NoPos}
                    = {k \in saved_in_rom_get_for(breakpoints, fn) :
                            editors[fn][view].marks[k] # NoPos}

C8_Witness ==
    /\ last.op = "deliver_reload" /\ last.reloaded
    /\ \E k \in breakpoints[last.fn] : editors[last.fn].ssbs.bp[k] # NoPos

\* C9: when save returns True and force_reload follows at once, the routine_
\* marks afterwards are those of the source map compiled from the saved text,
\* and the keys given to resync are, for every line with a breakpoint line
\* mark, the key of the first entry of that source map on the line.
C9_ResyncFromProvisionalMap ==
    [][\A fn \in Filenames :
        (/\ last'.op = "save" /\ last'.fn = fn
         /\ last'.saved /\ last'.ret = "True") =>
            LET buf == editors[fn].ssbs
                sm == last'.source_map
                lines == {l \in 0..(LineCount(buf.text) - 1) :
                            SourceMarksAtLine(buf, l) # {}}
                first(l) == {e \in sm : /\ e[3] = l
                                        /\ \A d \in sm : d[3] = l => e[4] <= d[4]}
            IN  /\ editors'[fn].ssbs.marks
                        = CreateMarksFromSourceMap(NoMarks, buf.text, sm)
                /\ last'.resync
                        = {<<e[1], e[2]>> : e \in UNION {first(l) : l \in lines}}]_vars

C11_FailedCompileChangesNothing ==
    [][\A fn \in Filenames :
        (last'.op = "save" /\ last'.fn = fn /\ last'.ret = "SsbCompilerError")
        => /\ last'.written = {}
           /\ open_files' = open_files
           /\ editors' = editors
           /\ breakpoints' = breakpoints
           /\ gtk_queue' = gtk_queue
           /\ deferred' = deferred
           /\ last'.reloads = 0 /\ ~last'.reloaded
           /\ ~last'.saved /\ last'.resync = {}]_vars

\* A compilation failed while the ground engine holds the file and the
\* editor's breakpoints are live.
C11_Witness ==
    /\ last.op = "save" /\ last.ret = "SsbCompilerError"
    /\ \E fn \in DOMAIN open_files :
        /\ last.fn = fn
        /\ open_files[fn].opened_in_ground_engine
        /\ open_files[fn].ram_state_up_to_date
        /\ editors[fn].ssbs.modified

\* C12: a save that fails while persisting the compiled unit to the archive
\* (rom.saveToFile raises) mutates nothing: the file's model and source map
\* are the ones from before the save, and the four flags are unchanged.
C12_FailedPersistChangesNothing ==
    [][\A fn \in Filenames :
        (last'.op = "save" /\ last'.fn = fn /\ last'.ret = "OSError")
        => /\ "ssb_model" \notin last'.written
           /\ "source_map" \notin last'.written
           /\ fn \in DOMAIN open_files
           /\ Flags(open_files'[fn]) = Flags(open_files[fn])]_vars

\* C13: force_reload emits a reload event only when the operation before it
\* on that file was a save that returned True ("reload ready"); called at any
\* other time it emits none.
C13_ForceReloadOnlyAfterReadySave ==
    [][\A fn \in Filenames :
        (last'.op = "force_reload" /\ last'.fn = fn /\ last'.reloads > 0)
        => (last.op = "save" /\ last.fn = fn /\ last.ret = "True")]_vars

\* C14: mark_invalid, in whatever state the file is (tracked or not), leaves
\* ram_state_up_to_date false and not_breakable true, leaves opened_in_editor
\* and opened_in_ground_engine as they were, emits no reload event and queues
\* none.
C14_MarkInvalidDegrades ==
    [][\A fn \in Filenames :
        (last'.op = "mark_invalid" /\ last'.fn = fn)
        => LET before == get(open_files, fn)[fn]
           IN  /\ ~open_files'[fn].ram_state_up_to_date
               /\ open_files'[fn].not_breakable
               /\ open_files'[fn].opened_in_editor = before.opened_in_editor
               /\ open_files'[fn].opened_in_ground_engine
                        = before.opened_in_ground_engine
               /\ last'.reloads = 0 /\ last'.scheduled = 0 /\ ~last'.reloaded
               /\ editors' = editors
               /\ gtk_queue' = gtk_queue]_vars

\* mark_invalid was called on a file open in the editor and in the ground
\* engine.
C14_Witness ==
    /\ last.op = "mark_invalid"
    /\ \E fn \in DOMAIN open_files :
        /\ last.fn = fn
        /\ open_files[fn].opened_in_editor
        /\ open_files[fn].opened_in_ground_engine
        /\ ~open_files[fn].ram_state_up_to_date
        /\ open_files[fn].not_breakable

\* C15, as stated, for the operation that follows mark_invalid: unless that
\* operation is close_in_ground_engine, not_breakable is still true after it.
C15_OnlyCloseClearsAfterMarkInvalid ==
    [][\A fn \in Filenames :
        (/\ last.op = "mark_invalid" /\ last.fn = fn
         /\ ~(last'.op = "close_in_ground_engine" /\ last'.fn = fn))
        => open_files'[fn].not_breakable]_vars

\* C15, amended: mark_invalid leaves not_breakable true; from then on every
\* operation keeps it true except close_in_ground_engine, which always
\* clears it, and an open_in_ground_engine called while ram_state_up_to_date
\* is false, which clears it too.
C15_MarkInvalidUntilEngineReload ==
    /\ [][\A fn \in Filenames :
            (last'.op = "mark_invalid" /\ last'.fn = fn)
            => open_files'[fn].not_breakable]_vars
    /\ [][\A fn \in DOMAIN open_files :
            (open_files[fn].not_breakable /\ ~open_files'[fn].not_breakable)
            => /\ last'.fn = fn
               /\ \/ last'.op = "close_in_ground_engine"
                  \/ /\ last'.op = "open_in_ground_engine"
                     /\ ~open_files[fn].ram_state_up_to_date]_vars
    /\ [][\A fn \in DOMAIN open_files :
            (/\ open_files[fn].not_breakable /\ last'.fn = fn
             /\ \/ last'.op = "close_in_ground_engine"
                \/ /\ last'.op = "open_in_ground_engine"
                   /\ ~open_files[fn].ram_state_up_to_date)
            => ~open_files'[fn].not_breakable]_vars

\* A force_reload found the file not breakable and stale in RAM, as
\* mark_invalid leaves it, and left it so.
C15_Witness ==
    /\ last.op = "force_reload"
    /\ \E fn \in DOMAIN open_files :
        /\ last.fn = fn
        /\ open_files[fn].not_breakable
        /\ ~open_files[fn].ram_state_up_to_date
        /\ open_files[fn].opened_in_editor
        /\ ~open_files[fn].opened_in_ground_engine

\* C16: a close_in_editor that asked for confirmation (ram_state_up_to_date
\* false) and got it leaves not_breakable true and the file closed in the
\* editor; open_in_editor, close_in_editor and save then keep not_breakable
\* true, and the only operations that clear it are open_in_ground_engine and
\* close_in_ground_engine.
C16_NotBreakableAfterMarksDestroyed ==
    /\ [][\A fn \in Filenames :
            (/\ last'.op = "close_in_editor" /\ last'.fn = fn
             /\ last'.warning = "True")
            => (/\ ~open_files[fn].ram_state_up_to_date
                /\ open_files'[fn].not_breakable
                /\ ~open_files'[fn].opened_in_editor)]_vars
    /\ [][\A fn \in DOMAIN open_files :
            (/\ open_files[fn].not_breakable /\ last'.fn = fn
             /\ last'.op \in {"open_in_editor", "close_in_editor", "save"})
            => open_files'[fn].not_breakable]_vars
    /\ [][\A fn \in DOMAIN open_files :
            (open_files[fn].not_breakable /\ ~open_files'[fn].not_breakable)
            => /\ last'.fn = fn
               /\ last'.op \in {"open_in_ground_engine",
                                "close_in_ground_engine"}]_vars

\* The file was closed in the editor while the ground engine held stale
\* bytecode, opened again, edited and saved: it is still not breakable.
C16_Witness ==
    /\ last.op = "save" /\ last.ret = "False" /\ last.saved
    /\ \E fn \in DOMAIN open_files :
        /\ last.fn = fn
        /\ open_files[fn].not_breakable
        /\ open_files[fn].opened_in_editor
        /\ open_files[fn].opened_in_ground_engine

\* C17: open_in_editor leaves the file (created by get if it was not
\* tracked) with opened_in_editor true and its three other flags as they
\* were, emits and queues no reload and touches no breakpoint; calling it
\* again changes nothing more.
C17_OpenInEditorOnlyOpens ==
    /\ [][\A fn \in Filenames :
            (last'.op = "open_in_editor" /\ last'.fn = fn)
            => LET before == get(open_files, fn)[fn]
               IN  /\ open_files'[fn] = [before EXCEPT !.opened_in_editor = TRUE]
                   /\ last'.reloads = 0 /\ last'.scheduled = 0
                   /\ ~last'.reloaded
                   /\ gtk_queue' = gtk_queue
                   /\ breakpoints' = breakpoints
                   /\ fn \in DOMAIN editors => editors' = editors]_vars
    /\ [](\A fn \in Filenames :
            open_in_editor(open_in_editor(open_files, fn), fn)
                = open_in_editor(open_files, fn))
    /\ [][\A fn \in Filenames :
            (/\ last.op = "open_in_editor" /\ last.fn = fn
             /\ last'.op = "open_in_editor" /\ last'.fn = fn)
            => open_files' = open_files]_vars

\* open_in_editor was called on a file the ground engine holds, stale in RAM
\* and not breakable.
C17_Witness ==
    /\ last.op = "open_in_editor"
    /\ \E fn \in DOMAIN open_files :
        /\ last.fn = fn
        /\ open_files[fn].opened_in_editor
        /\ open_files[fn].opened_in_ground_engine
        /\ ~open_files[fn].ram_state_up_to_date
        /\ open_files[fn].not_breakable

\* C18: open_in_ground_engine on a file whose ram_state_up_to_date is true
\* (a file get has just created included) sets opened_in_ground_engine and
\* changes no other flag, emits and queues no reload and leaves the editors
\* alone; a second call right after a first one, whatever the first found,
\* emits no reload and changes nothing.
C18_OpenInGroundEngineIdempotent ==
    /\ [][\A fn \in Filenames :
            (/\ last'.op = "open_in_ground_engine" /\ last'.fn = fn
             /\ get(open_files, fn)[fn].ram_state_up_to_date)
            => (/\ open_files'[fn] = [get(open_files, fn)[fn] EXCEPT
                                        !.opened_in_ground_engine = TRUE]
                /\ last'.reloads = 0 /\ last'.scheduled = 0
                /\ ~last'.reloaded
                /\ editors' = editors
                /\ gtk_queue' = gtk_queue)]_vars
    /\ [][\A fn \in Filenames :
            (/\ last.op = "open_in_ground_engine" /\ last.fn = fn
             /\ last'.op = "open_in_ground_engine" /\ last'.fn = fn)
            => (/\ last'.reloads = 0 /\ ~last'.reloaded
                /\ open_files' = open_files
                /\ editors' = editors
                /\ breakpoints' = breakpoints
                /\ gtk_queue' = gtk_queue)]_vars
    /\ [](\A fn \in Filenames :
            LET once == open_in_ground_engine(open_files, fn)
                twice == open_in_ground_engine(once.files, fn)
            IN  twice.files = once.files /\ twice.reloads = 0)

\* open_in_ground_engine found the file up to date in RAM, open in the
\* editor and not breakable, and emitted nothing.
C18_Witness ==
    /\ last.op = "open_in_ground_engine" /\ last.reloads = 0
    /\ \E fn \in DOMAIN open_files :
        /\ last.fn = fn
        /\ open_files[fn].opened_in_ground_engine
        /\ open_files[fn].opened_in_editor
        /\ open_files[fn].ram_state_up_to_date
        /\ open_files[fn].not_breakable

\* C19: the operations on one file are serialized: when an operation of the
\* editor (save, close_in_editor) and one of the ground engine
\* (open_in_ground_engine, close_in_ground_engine, mark_invalid) are called
\* from two threads, what they leave once both have returned (the four
\* flags, the return value, the number of reload events) is what calling
\* them one after the other, in one of the two orders, leaves.
C19_OutcomesSerializable ==
    (/\ threads.fn # None
     /\ \A t \in Threads : threads.pc[t] = "done")
    => ThreadsOutcome \in SerialOutcomes(threads.start, threads.op["gtk"],
                                         threads.op["engine"], threads.fn,
                                         threads.warning)

\* C20: no run of on_ssb_reload (the migration of the marks) starts while a
\* save of the file is in progress, from the call of the compiler until
\* resync has returned; a reload the ground engine triggers in that time is
\* handled after it.
C20_NoReloadDuringSave ==
    [][threads'.handled > threads.handled => ~SaveInProgress]_vars

\* C21: close_in_ground_engine called in the engine's thread never runs
\* on_ssb_reload itself and never waits for it: none of its statements
\* changes a buffer of the editor or counts as a run of on_ssb_reload, the
\* reload it owes is a callback queued for the GTK main loop, and each of its
\* statements can run whatever the GTK thread is doing and whether or not the
\* queued callback has run.
C21_CloseInGroundEngineHandsOff ==
    /\ [][(/\ threads.op["engine"] = "close_in_ground_engine"
           /\ threads'.pc["engine"] # threads.pc["engine"])
          => (/\ editors' = editors
              /\ threads'.handled = threads.handled
              /\ threads'.handled_by = threads.handled_by
              /\ threads'.scheduled > threads.scheduled
                    => gtk_queue' = Append(gtk_queue, threads.fn))]_vars
    /\ [](/\ threads.op["engine"] = "close_in_ground_engine"
          /\ threads.pc["engine"] # "done"
          => ENABLED ThreadCloseInGroundEngine)

\* close_in_ground_engine has returned with ram_state_up_to_date set while
\* the reload it queued is still waiting for a save in progress.
C21_Witness ==
    /\ threads.op["engine"] = "close_in_ground_engine"
    /\ threads.pc["engine"] = "done"
    /\ threads.scheduled = 1 /\ threads.handled = 0
    /\ gtk_queue # <<>>
    /\ SaveInProgress
    /\ ~open_files[threads.fn].opened_in_ground_engine

\* C22: every run of on_ssb_reload, whichever operation emitted the reload
\* event and whichever thread called that operation, is a run in the GTK
\* thread, the editor's: no other thread changes the marks of a buffer.
C22_ReloadsRunInGtkThread ==
    threads.handled_by \subseteq {"gtk"}

\* C27: while a save is in progress, from the call of the compiler until
\* resync has returned, the marks the editor resolves lines with (the active
\* source map of its buffer) stay those of before the save: the marks of
\* the new source map become the active ones only after resync returned.
C27_ActiveSourceMapAfterResync ==
    [][(/\ SaveInProgress
        /\ threads.fn \in DOMAIN editors
        /\ threads.fn \in DOMAIN editors')
       => editors'[threads.fn].ssbs.marks = editors[threads.fn].ssbs.marks]_vars

\* C23: removing a breakpoint is permitted in every state, also for a file
\* that is not breakable or whose RAM state is out of date: remove_breakpoint
\* reads no flag and calls breakpoint_manager.remove with the key of the mark;
\* a click on a line of the editable view that carries a breakpoint mark can
\* always be handled, removes a key whose mark is on that line from the
\* manager's set and leaves the flags alone, and nothing is reported as an
\* error.
C23_RemoveBreakpointAlwaysPermitted ==
    /\ [](\A f \in [opened_in_editor : BOOLEAN, opened_in_ground_engine : BOOLEAN,
                    ram_state_up_to_date : BOOLEAN, not_breakable : BOOLEAN],
             k \in Keys : remove_breakpoint(f, k) = {k})
    /\ [](\A fn \in DOMAIN editors, line \in 0..MaxLen :
            LET buf == editors[fn].ssbs
                marks == IF line < LineCount(buf.text)
                         THEN MarksAtPos(buf.bp, IterAtLine(buf.text, line))
                         ELSE {}
            IN  marks # {} =>
                    ENABLED (/\ LineMarkActivated(fn, "ssbs", line)
                             /\ last'.removed # {}
                             /\ last'.removed \subseteq marks
                             /\ breakpoints'[fn] = breakpoints[fn] \ last'.removed))
    /\ [][last'.op = "line_mark_activated" /\ last'.removed # {}
          => (/\ last'.ret = "None"
              /\ open_files' = open_files
              /\ breakpoints'[last'.fn] = breakpoints[last'.fn] \ last'.removed
              /\ \A k \in last'.removed, view \in Views :
                    editors'[last'.fn][view].bp[k] = NoPos)]_vars

\* A breakpoint was removed by a click while the file was not breakable and
\* its RAM state out of date.
C23_Witness ==
    /\ last.op = "line_mark_activated"
    /\ last.removed # {}
    /\ open_files[last.fn].not_breakable
    /\ ~open_files[last.fn].ram_state_up_to_date
    /\ breakpoints[last.fn] = {}

\* C24: a save of the ExplorerScript text while SSBScript is the projection
\* that is edited (_explorerscript_active is False) is rejected with
\* ProjectionNotEditable and changes nothing: no flag of the file, no model,
\* source map or ROM file, and no readiness is returned.
C24_ProjectionSaveRejected ==
    [][(last'.op = "save_from_explorerscript" /\ ~explorerscript_active)
       => (/\ last'.ret = "ProjectionNotEditable"
           /\ open_files' = open_files
           /\ last'.written = {})]_vars

\* C25: an operation on one file, failed or not, leaves every other file
\* alone: for distinct filenames fn and g, a step of an operation on fn
\* neither adds nor removes g's entry, changes none of g's flags, nothing of
\* g's editor (its buffers and marks), none of g's breakpoints, and queues or
\* delivers no reload for g.
C25_OtherFilesUntouched ==
    [][\A fn \in TwoFilenames : \A g \in TwoFilenames \ {fn} :
        last'.fn = fn =>
            LET IsG(x) == x = g
            IN  /\ (g \in DOMAIN open_files') = (g \in DOMAIN open_files)
                /\ g \in DOMAIN open_files => open_files'[g] = open_files[g]
                /\ (g \in DOMAIN editors') = (g \in DOMAIN editors)
                /\ g \in DOMAIN editors => editors'[g] = editors[g]
                /\ breakpoints'[g] = breakpoints[g]
                /\ deferred'[g] = deferred[g]
                /\ SelectSeq(gtk_queue', IsG) = SelectSeq(gtk_queue, IsG)]_vars

\* A save of "f" failed in the compiler while "g", invalidated and loaded
\* again by the engine, waits for its queued reload with its editor open.
C25_Witness ==
    /\ last.op = "save" /\ last.fn = "f" /\ last.ret = "SsbCompilerError"
    /\ "g" \in DOMAIN editors
    /\ open_files["g"].opened_in_ground_engine
    /\ ~open_files["f"].opened_in_ground_engine
    /\ open_files["f"].not_breakable /\ ~open_files["g"].not_breakable
    /\ "g" \in {gtk_queue[i] : i \in DOMAIN gtk_queue}

\* C26: the registry holds one entry per filename. get adds the entry, with
\* the flags of a new file, for a filename it does not hold, and changes
\* nothing for one it holds; a get whose read of the ROM fails adds no entry;
\* open_in_editor, open_in_ground_engine and mark_invalid on a file that is
\* held act on its entry and keep the flags they do not assign; no step
\* removes an entry.
C26_RegistryEntries ==
    /\ [][DOMAIN open_files \subseteq DOMAIN open_files']_vars
    /\ [][\A fn \in TwoFilenames :
            (last'.op = "get" /\ last'.fn = fn) =>
                IF fn \in DOMAIN open_files
                THEN open_files' = open_files /\ last'.ret = "None"
                ELSE IF last'.ret = "StorageError"
                THEN open_files' = open_files
                ELSE open_files' = open_files @@ (fn :> NewLoadedFile)]_vars
    /\ [][\A fn \in DOMAIN open_files :
            LET old == open_files[fn]
                new == open_files'[fn]
            IN  /\ (last'.op = "open_in_editor" /\ last'.fn = fn) =>
                        /\ new.opened_in_ground_engine = old.opened_in_ground_engine
                        /\ new.ram_state_up_to_date = old.ram_state_up_to_date
                        /\ new.not_breakable = old.not_breakable
                /\ (last'.op = "open_in_ground_engine" /\ last'.fn = fn) =>
                        new.opened_in_editor = old.opened_in_editor
                /\ (last'.op = "mark_invalid" /\ last'.fn = fn) =>
                        /\ new.opened_in_editor = old.opened_in_editor
                        /\ new.opened_in_ground_engine
                                = old.opened_in_ground_engine]_vars

\* get of "g" failed and added no entry, while "f" is held, open in the
\* editor and in the engine and not breakable.
C26_Witness ==
    /\ last.op = "get" /\ last.fn = "g" /\ last.ret = "StorageError"
    /\ DOMAIN open_files = {"f"}
    /\ open_files["f"].opened_in_editor
    /\ open_files["f"].opened_in_ground_engine
    /\ open_files["f"].not_breakable

\* C28: the keys save gives to resync are those of the lines that carry a
\* breakpoint line mark and that an entry of the source map compiled by this
\* save covers: for every such line a key of an entry on that line, no key
\* for a marked line that no entry covers, and the breakpoint manager's set
\* for the file becomes exactly these keys.
C28_ResyncKeysOfCoveredLines ==
    [][\A fn \in Filenames :
        (last'.op = "save" /\ last'.fn = fn /\ last'.saved) =>
            LET buf == editors[fn].ssbs
                sm == last'.source_map
                covered == {l \in 0..(LineCount(buf.text) - 1) :
                                /\ SourceMarksAtLine(buf, l) # {}
                                /\ \E e \in sm : e[3] = l}
            IN  /\ \A l \in covered :
                        \E e \in sm : e[3] = l /\ <<e[1], e[2]>> \in last'.resync
                /\ \A k \in last'.resync :
                        \E e \in sm : <<e[1], e[2]>> = k /\ e[3] \in covered
                /\ breakpoints'[fn] = last'.resync]_vars

\* C29: a reload that follows a save completes the migration at every
\* position of the buffer, its start and its end included: afterwards no TMP_
\* mark remains, and the routine_ marks are exactly the provisional ones, each
\* at the position its TMP_ mark had (so a mark of the previous source map
\* remains only where the new map has the same key). For the reload save
\* triggers itself the provisional marks are those of the source map it
\* compiled; for a later reload they are the TMP_ marks pending in the buffers.
C29_MigrationComplete ==
    [][\A fn \in DOMAIN editors :
        /\ (/\ last'.op = "save" /\ last'.fn = fn /\ last'.saved
            /\ last'.reloaded)
           => LET buf == editors'[fn].ssbs
              IN  /\ \A k \in Keys : buf.tmp[k] = NoPos
                  /\ buf.marks = CreateMarksFromSourceMap(NoMarks, buf.text,
                                                          last'.source_map)
        /\ (/\ last'.op # "save" /\ last'.fn = fn /\ last'.reloaded
            /\ editors[fn].waiting_for_reload
            /\ \E view \in Views, k \in Keys : editors[fn][view].tmp[k] # NoPos)
           => \A view \in Views, k \in Keys :
                /\ editors'[fn][view].tmp[k] = NoPos
                /\ editors'[fn][view].marks[k] = editors[fn][view].tmp[k]]_vars

\* C30: a reload with no save since the previous reload leaves the routine_
\* marks of both buffers as they are. Such a reload is one that directly
\* follows a reload of the same file, or one open_in_ground_engine emits
\* while no save waits for its reload (none deferred, none queued).
C30_ReloadWithoutSaveKeepsMarks ==
    [][\A fn \in DOMAIN editors :
        (/\ last'.reloaded /\ last'.fn = fn /\ last'.op # "save"
         /\ \/ last.reloaded /\ last.fn = fn
            \/ /\ last'.op = "open_in_ground_engine"
               /\ deferred[fn] # "pending"
               /\ \A i \in DOMAIN gtk_queue : gtk_queue[i] # fn)
        => \A view \in Views :
                editors'[fn][view].marks = editors[fn][view].marks]_vars

\* C34: save in the GTK thread and close_in_ground_engine in the engine
\* thread on the same file, loaded by the engine and up to date at the
\* start, interleaved statement by statement with no lock: when both have
\* returned, save has returned True or close_in_ground_engine has queued a
\* reload (or both), ram_state_up_to_date is true and
\* opened_in_ground_engine is false.
C34_NoReloadLost ==
    (/\ threads.op["gtk"] = "save"
     /\ threads.op["engine"] = "close_in_ground_engine"
     /\ threads.start.opened_in_ground_engine
     /\ threads.start.ram_state_up_to_date
     /\ threads.pc["gtk"] = "done" /\ threads.pc["engine"] = "done")
    => /\ threads.ret = "True" \/ threads.scheduled >= 1
       /\ open_files[threads.fn].ram_state_up_to_date
       /\ ~open_files[threads.fn].opened_in_ground_engine

\* Both have returned after save read opened_in_ground_engine while the
\* engine still held the file: save returned False and the reload was queued
\* by close_in_ground_engine.
C34_Witness ==
    /\ threads.op["gtk"] = "save"
    /\ threads.op["engine"] = "close_in_ground_engine"
    /\ threads.start.opened_in_ground_engine
    /\ threads.start.ram_state_up_to_date
    /\ threads.pc["gtk"] = "done" /\ threads.pc["engine"] = "done"
    /\ threads.ret = "False" /\ threads.scheduled = 1

\* C32: as long as mark_invalid is never called, every file the manager
\* holds satisfies: ram_state_up_to_date false implies
\* opened_in_ground_engine true, and not_breakable true implies
\* ram_state_up_to_date false.
C32_FlagsWithoutMarkInvalid ==
    \A fn \in DOMAIN open_files :
        /\ ~open_files[fn].ram_state_up_to_date
                => open_files[fn].opened_in_ground_engine
        /\ open_files[fn].not_breakable
                => ~open_files[fn].ram_state_up_to_date

\* A file closed in the editor after a deferred save (not breakable), opened
\* again, edited and saved: it is still not breakable, out of date and held
\* by the engine.
C32_Witness ==
    /\ last.op = "save" /\ last.saved /\ last.ret = "False"
    /\ open_files[last.fn].not_breakable
    /\ ~open_files[last.fn].ram_state_up_to_date
    /\ open_files[last.fn].opened_in_ground_engine
    /\ open_files[last.fn].opened_in_editor

\* C33: no reload event is spurious. A reload event is emitted by
\* open_in_ground_engine (a call of signal_editor_reload), by
\* close_in_ground_engine (a callback queued) or by the force_reload of a save
\* that returned True. The file manager keeps "a save or mark_invalid has
\* happened since the last reload event" as ram_state_up_to_date = false:
\* (a) the engine operations emit a reload only when they find the flag false,
\*     and leave it true;
\* (b) the flag becomes false, or a file is created with it false, only in a
\*     step of mark_invalid or of a save that saved;
\* (c) a save emits a reload only when it saved and returned True, and leaves
\*     the flag true;
\* (d) of two consecutive engine operations on a file (a load / unload cycle)
\*     the second one emits nothing.
C33_NoSpuriousReload ==
    /\ [][\A fn \in Filenames :
            (/\ last'.fn = fn
             /\ last'.op \in {"open_in_ground_engine", "close_in_ground_engine"}
             /\ last'.reloads > 0 \/ last'.scheduled > 0) =>
                /\ fn \in DOMAIN open_files
                /\ ~open_files[fn].ram_state_up_to_date
                /\ open_files'[fn].ram_state_up_to_date]_vars
    /\ [][\A fn \in DOMAIN open_files' :
            (/\ fn \in DOMAIN open_files => open_files[fn].ram_state_up_to_date
             /\ ~open_files'[fn].ram_state_up_to_date) =>
                /\ last'.fn = fn
                /\ \/ last'.op = "mark_invalid"
                   \/ last'.op = "save" /\ last'.saved]_vars
    /\ [][\A fn \in Filenames :
            (/\ last'.fn = fn /\ last'.op = "save"
             /\ last'.reloads > 0 \/ last'.scheduled > 0) =>
                /\ last'.saved /\ last'.ret = "True"
                /\ open_files'[fn].ram_state_up_to_date]_vars
    /\ [][(/\ last.op \in {"open_in_ground_engine", "close_in_ground_engine"}
           /\ last'.op \in {"open_in_ground_engine", "close_in_ground_engine"}
           /\ last'.fn = last.fn)
          => last'.reloads = 0 /\ last'.scheduled = 0]_vars

\* open_in_ground_engine emitted the reload of a save that had returned
\* False.
C33_Witness ==
    /\ last.op = "open_in_ground_engine" /\ last.reloads = 1 /\ last.reloaded
    /\ deferred[last.fn] = "emitted"
    /\ open_files[last.fn].ram_state_up_to_date

\* C31: the source map is replaced as a whole. A save that returns False
\* while the reload of an earlier save that returned False is still due
\* (deferred is "pending": no reload has reached the editor in between),
\* followed by one reload: the routine_ marks of the SSBScript buffer are then
\* exactly those of the source map of this last save, no key of an earlier
\* source map only, each key where the last source map puts it.
C31_SourceMapReplacedWholesale ==
    [][\A fn \in DOMAIN editors :
        (/\ last'.op = "save" /\ last'.fn = fn
         /\ last'.saved /\ last'.ret = "False"
         /\ deferred[fn] = "pending") =>
            LET ed == on_ssb_reload(editors'[fn],
                                    saved_in_rom_get_for(breakpoints', fn))
            IN  ed.ssbs.marks = CreateMarksFromSourceMap(NoMarks, ed.ssbs.text,
                                                         last'.source_map)]_vars

====
